---- MODULE Spec2Model ----
(***************************************************************************)
(* A model of the realtime session engine of fbchat-muqit:                 *)
(*   - the request correlator  (messenger/client.py, client.py)            *)
(*   - the event queue and the dispatcher (client.py, events/dispatcher.py)*)
(*   - the MQTT session, its background tasks, reconnect and stop          *)
(*     (muqit.py)                                                          *)
(*   - the cursor scan extract_meta (muqit.py)                             *)
(* asyncio is cooperative: a task runs from one await to the next without  *)
(* interruption, so every action below is the code between two suspension  *)
(* points of one task.  The order in which suspended tasks resume is left   *)
(* open: every order the event loop can produce is among the behaviours.   *)
(***************************************************************************)
EXTENDS Integers, Sequences, FiniteSets, TLC

None == "None"
NoId == 0 - 1          \* "no request id" (ids are naturals)
NoCall == 0            \* "no such call" (calls are numbered from 1)
NoResult == [request_id |-> NoId]

(* ------------------------------ bounds -------------------------------- *)
MaxCalls == 2        \* _send_request calls made in one run
MaxStarts == 2       \* start_listening calls made in one run

MaxEvents == 3       \* Events decoded in one run
MaxDeltas == 2       \* Events decoded from one frame
MaxQueue == 1        \* capacity of the event queue (1000 in the code)
MaxListeners == 2    \* distinct listener callbacks

MaxSeq == 3          \* largest sequence id a frame carries
MaxFetch == 2        \* largest sequence id the HTTP baseline fetch returns
MaxClients == 3      \* aiomqtt clients built in one run (1 + reconnects)
MaxPublishes == 3    \* bootstrap messages published on one client
MaxSockets == 3      \* websockets opened by one FacebookRealtime instance
MaxConnects == 3     \* connect/reconnect coroutines of one instance
MaxDepth == 1        \* reconnect() calls nested in _send_subscriptions

NeverSentId == 99    \* a request id no caller was ever given

VARIABLES
  (* Client / MessengerClient fields: the request correlator *)
  _req_count,         \* MessengerClient._req_count
  _pending_requests,  \* request id -> the call whose future is registered
  calls,              \* each _send_request call: pc, request id, future, its
                      \* result, the value returned to the caller
  published,          \* request ids handed to the transport on /ls_req
  discarded,          \* request ids of reply frames that found no waiter
  arrived,            \* request ids of the reply frames that wait in
                      \* self._mqttClient.messages for the listen loop
  caller,             \* per _send_request call: the dispatch loop whose listener
                      \* made the call, 0 when it was made outside a listener
  (* Client fields set by start_listening / stop_listening *)
  _mqtt,              \* Client._mqtt: None or "mqtt"
  _listening,         \* Client._listening
  loops,              \* the _dispatch_mqtt_message tasks, in creation order
  (* Client / EventDispatcher fields: the event queue and the listeners *)
  _events_queue,      \* Client._events_queue, oldest first
  _event_listeners,   \* EventDispatcher._event_listeners: kind -> list
  everAdded,          \* the <<kind, callback>> pairs add_listener was called with
  handler,            \* _handle_mqtt_messages of the frame being handled
  nextEv,             \* number of Events decoded so far
  log,                \* the listener calls made so far, in order
  lastMsg,            \* the message the listen loop handled last, and what
                      \* _handle_mqtt_messages made of it
  (* Mqtt fields: the cursor *)
  _sequence_id,       \* Mqtt._sequence_id
  _sync_token,        \* Mqtt._sync_token, or None
  lastFrame,          \* the cursor fields of the frame handled last
  (* Mqtt fields: the session *)
  _running,           \* Mqtt._running
  _reconnecting,      \* Mqtt._reconnecting
  _update_presence,   \* Mqtt._update_presence
  _auto_reconnect,    \* Mqtt._auto_reconnect
  _mqttClient,        \* Mqtt._mqttClient: index into clients
  _listen_task,       \* Mqtt._listen_task: index into tasks, 0 for None
  _presence_task,     \* Mqtt._presence_task
  _reconnect_task,    \* Mqtt._reconnect_task
  clients,            \* the aiomqtt.Client objects built so far
  tasks,              \* the asyncio tasks created so far
  connector,          \* the caller of Mqtt.connect
  stopper,            \* the caller of Mqtt.stop; rc: the tasks that were running
                      \* _reconnect when stop() was called
  rcOutcome,          \* how the reconnect sequence that ended last ended
  (* FacebookRealtime *)
  realtime,           \* the fields _running, _ws, _listen_task of the instance
  websockets,         \* the websockets opened so far: "open" or "closed"
  listenTasks,        \* the _listen_loop tasks created so far
  connects,           \* the coroutines running connect(), reconnect() or
                      \* _schedule_reconnect()
  rtStop              \* the caller of FacebookRealtime.stop()

reqVars == <<_req_count, _pending_requests, calls, published, discarded, arrived,
            caller>>
clientVars == <<_mqtt, _listening, loops>>
dispVars == <<_events_queue, _event_listeners, everAdded, handler, nextEv, log,
              lastMsg>>
cursorVars == <<_sequence_id, _sync_token, lastFrame>>
sessVars == <<_running, _reconnecting, _update_presence, _auto_reconnect,
              _mqttClient, _listen_task, _presence_task, _reconnect_task,
              clients, tasks, connector, stopper, rcOutcome>>
mqttVars == <<cursorVars, sessVars>>
rtVars == <<realtime, websockets, listenTasks, connects, rtStop>>
vars == <<reqVars, clientVars, dispVars, mqttVars, rtVars>>

Calls == 1..MaxCalls

(* ------------------------- small helpers ------------------------------ *)
Min(S) == CHOOSE x \in S : \A y \in S : x <= y

\* dict.pop(key, None): the map without the key
DictPop(d, k) == [x \in (DOMAIN d) \ {k} |-> d[x]]

\* d[key] = value
DictSet(d, k, v) == [x \in (DOMAIN d) \cup {k} |-> IF x = k THEN v ELSE d[x]]

EmptyDict == [x \in {} |-> NoCall]

(* ---------------------- request correlator ---------------------------- *)

\* the mutant: the id is the number of waiters registered
GetRequestIdPending == Cardinality(DOMAIN _pending_requests)

\* MessengerClient._get_request_id: returns the counter, then increments it
_get_request_id == _req_count

IdleCall == [pc |-> "idle", request_id |-> NoId, fut |-> "none", result |-> NoResult,
             ret |-> NoResult]

InitReq ==
  /\ _req_count = 0
  /\ _pending_requests = EmptyDict
  /\ calls = [c \in Calls |-> IdleCall]
  /\ published = {}
  /\ discarded = {}
  /\ arrived = {}
  /\ caller = [c \in Calls |-> 0]

\* FacebookRealtime's field defaults; nothing is connected and no coroutine
\* of the instance runs
InitRealtime ==
  /\ realtime = [_running |-> FALSE, _ws |-> 0, _listen_task |-> 0]
  /\ websockets = <<>>
  /\ listenTasks = <<>>
  /\ connects = <<>>
  /\ rtStop = [pc |-> "idle"]

InitClient ==
  /\ _mqtt = None
  /\ _listening = FALSE
  /\ loops = <<>>
  /\ InitRealtime

\* the mutant: the publish goes out with no waiter registered
RegisterNothing(pending, rid, c) == pending

\* self._pending_requests[request_id] = fut, the first statements of
\* _send_request
Register(pending, rid, c) == DictSet(pending, rid, c)

\* A caller builds its payload with request_id = _get_request_id() and enters
\* _send_request: the future is created and registered, then the payload is
\* published when self._mqtt is set (first suspension: the publish).
SendRequest(c) ==
  /\ calls[c].pc = "idle"
  /\ \A d \in Calls : d < c => calls[d].pc # "idle"
  /\ LET rid == _get_request_id IN
       /\ _req_count' = _req_count + 1
       /\ _pending_requests' = Register(_pending_requests, rid, c)
       /\ IF _mqtt # None
            THEN /\ calls' = [calls EXCEPT ![c] = [pc |-> "publishing",
                               request_id |-> rid, fut |-> "pending", result |-> NoResult,
                               ret |-> NoResult]]
                 /\ published' = published \cup {rid}
            ELSE /\ calls' = [calls EXCEPT ![c] = [pc |-> "waiting",
                               request_id |-> rid, fut |-> "pending", result |-> NoResult,
                               ret |-> NoResult]]
                 /\ published' = published
  /\ UNCHANGED discarded

\* _send_request is called from outside the listeners
SendRequestEnter(c) ==
  /\ SendRequest(c)
  /\ UNCHANGED <<arrived, caller, clientVars, dispVars, mqttVars, rtVars>>

\* the publish returns: the call goes on to asyncio.wait_for(fut, timeout)
SendRequestPublished(c) ==
  /\ calls[c].pc = "publishing"
  /\ calls' = [calls EXCEPT ![c].pc = "waiting"]
  /\ UNCHANGED <<_req_count, _pending_requests, published, discarded, arrived, caller,
                 clientVars, dispVars, mqttVars, rtVars>>

\* the publish raises: the exception leaves _send_request, nothing is cleaned up
SendRequestPublishFails(c) ==
  /\ calls[c].pc = "publishing"
  /\ calls' = [calls EXCEPT ![c].pc = "failed"]
  /\ UNCHANGED <<_req_count, _pending_requests, published, discarded, arrived, caller,
                 clientVars, dispVars, mqttVars, rtVars>>

\* wait_for returns the future's result
SendRequestReturns(c) ==
  /\ calls[c].pc = "waiting"
  /\ calls[c].fut = "result"
  /\ calls' = [calls EXCEPT ![c].pc = "returned", ![c].ret = calls[c].result]
  /\ UNCHANGED <<_req_count, _pending_requests, published, discarded, arrived, caller,
                 clientVars, dispVars, mqttVars, rtVars>>

\* the mutant: the timeout path forgets to remove the waiter
TimeoutPopNothing(pending, rid) == pending

\* except asyncio.TimeoutError: self._pending_requests.pop(request_id, None)
TimeoutPop(pending, rid) == DictPop(pending, rid)

\* wait_for times out: the future is cancelled (when not done), the id is popped
\* and TimeoutError is raised.  Since Python 3.12 wait_for can also time out
\* when the result was set but the caller had not resumed yet.
SendRequestTimesOut(c) ==
  /\ calls[c].pc = "waiting"
  /\ calls' = [calls EXCEPT ![c].pc = "timedout",
                            ![c].fut = IF @ = "pending" THEN "cancelled" ELSE @]
  /\ _pending_requests' = TimeoutPop(_pending_requests, calls[c].request_id)
  /\ UNCHANGED <<_req_count, published, discarded, arrived, caller, clientVars, dispVars,
                 mqttVars, rtVars>>

\* the mutant: replies are matched to the oldest waiter, not looked up by id
ReplyKeyOldest(pending, rid) ==
  IF DOMAIN pending = {} THEN rid ELSE Min(DOMAIN pending)

\* the key looked up for a reply: data.request_id
ReplyKey(pending, rid) == rid

\* the mutant: the reply removes the oldest waiter, whatever its id
LsRespPopOldest(pending, key) ==
  IF DOMAIN pending = {} THEN pending ELSE DictPop(pending, Min(DOMAIN pending))

\* self._pending_requests.pop(data.request_id, None): the map without the key
LsRespPop(pending, key) == DictPop(pending, key)

\* _handle_mqtt_messages, topic "/ls_resp": decode the envelope, pop the
\* waiter of data.request_id and resolve it when it is not done
HandleLsResp(rid) ==
  LET data == [request_id |-> rid]
      key == ReplyKey(_pending_requests, rid)
      waiter == IF key \in DOMAIN _pending_requests
                  THEN _pending_requests[key] ELSE NoCall
  IN /\ _pending_requests' = LsRespPop(_pending_requests, key)
     /\ calls' = IF waiter # NoCall /\ calls[waiter].fut = "pending"
                   THEN [calls EXCEPT ![waiter].fut = "result",
                                      ![waiter].result = data]
                   ELSE calls
     /\ discarded' = IF rid \in DOMAIN _pending_requests
                         /\ calls[_pending_requests[rid]].fut = "pending"
                       THEN discarded ELSE discarded \cup {rid}
     /\ UNCHANGED <<_req_count, published, caller>>

\* a reply frame arrives on /ls_resp while a listen task feeds the handler:
\* a reply to a published request (replies come in any order and may be
\* duplicated) or a reply whose id was never sent.  The listen loop awaits
\* the handler of one frame before it takes the next.
LsRespFrame(rid) ==
  /\ _mqtt # None
  /\ handler = <<>>
  /\ rid \in published \cup {NeverSentId}
  /\ HandleLsResp(rid)
  /\ UNCHANGED <<arrived, clientVars, dispVars, mqttVars, rtVars>>

(* ------------------ start_listening / stop_listening ------------------ *)

NoEvent == [id |-> 0, kind |-> None]

\* a _dispatch_mqtt_message task: ev is the Event being dispatched, i the
\* position of the running listener in the kind's list, called the listeners
\* invoked for ev so far, reg the kind's list when the dispatch began
NewLoop == [pc |-> "start", ev |-> NoEvent, i |-> 0, called |-> {}, reg |-> <<>>]

\* Client.start_listening with Mqtt.connect and FacebookRealtime.connect
\* succeeding: self._mqtt is set, _listening = True and a dispatch task is
\* created
StartListening ==
  /\ Len(loops) < MaxStarts
  /\ _mqtt' = "mqtt"
  /\ _listening' = TRUE
  /\ loops' = Append(loops, NewLoop)
  /\ UNCHANGED <<reqVars, dispVars, mqttVars, rtVars>>

\* Client.stop_listening: Mqtt.stop() cancels the listen task, and with it a
\* frame handler suspended in put(); then _listening = False and _mqtt = None
StopListening ==
  /\ _mqtt # None
  /\ handler' = <<>>
  /\ _mqtt' = None
  /\ _listening' = FALSE
  /\ UNCHANGED <<loops, _events_queue, _event_listeners, everAdded, nextEv, lastMsg, log,
                 reqVars, mqttVars, rtVars>>

\* while self._listening, evaluated by a task that takes up the loop
LoopHead(loop) ==
  [loop EXCEPT !.pc = IF _listening THEN "get" ELSE "done", !.ev = NoEvent,
               !.i = 0, !.called = {}, !.reg = <<>>]

\* _dispatch_mqtt_message, first step of a task: while self._listening
DispatchLoopEnter(l) ==
  /\ loops[l].pc = "start"
  /\ loops' = [loops EXCEPT ![l] = LoopHead(@)]
  /\ UNCHANGED <<_mqtt, _listening, reqVars, dispVars, mqttVars, rtVars>>

(* ------------------------ the event queue ----------------------------- *)

Kinds == {"message", "presence"}
Listeners == 1..MaxListeners
ListenedKinds == {"message"}    \* the kinds the application registers listeners for
OnMethod == 0          \* the convention-based handler on_<kind>, as a log entry

\* the EventType values v for which EventDispatcher defines a method on_<v>
OnMethods ==
  {"listening", "admin_added", "admin_removed", "approval_mode_change",
   "approval_queue", "message_delivered", "mark_read", "mark_unread", "message",
   "message_unsent", "message_reaction", "message_seen", "message_pinned",
   "message_unpinned", "magic_words_change", "thread_mute", "thread_mute_settings",
   "participant_joined", "participant_left", "page_notification", "typing",
   "thread_action", "thread_delete", "theme_change", "thread_name_change",
   "emoji_change", "nickname_change", "message_sharing_change",
   "viewer_status_change", "friend_request_change", "poke_nofification"}

\* hasattr(self, "on_" + kind): on_message is defined, on_presence is not
HasMethod(kind) == kind \in OnMethods

RECURSIVE SeqsUpTo(_, _)
SeqsUpTo(S, n) ==
  IF n = 0 THEN {<<>>}
  ELSE LET shorter == SeqsUpTo(S, n - 1) IN
         shorter \cup {Append(q, x) : q \in shorter, x \in S}

\* what the parser makes of one frame: the kinds of its Events, in delta order
FrameKinds == SeqsUpTo(Kinds, MaxDeltas) \ {<<>>}

\* await self._events_queue.put(e) for each Event in turn: the Events that
\* fit are appended, the producer suspends on the first that does not
PutAll(q, h) ==
  LET n == Min({Len(h), MaxQueue - Len(q)}) IN
    [q |-> q \o SubSeq(h, 1, n), h |-> SubSeq(h, n + 1, Len(h))]

\* _handle_mqtt_messages is called with an event frame (/t_ms deltas, or a
\* frame for parse_all): the Events are decoded and put in the queue
FrameArrives(kinds) ==
  /\ _mqtt # None
  /\ handler = <<>>
  /\ nextEv + Len(kinds) <= MaxEvents
  /\ LET evs == [j \in 1..Len(kinds) |-> [id |-> nextEv + j, kind |-> kinds[j]]]
         r == PutAll(_events_queue, evs)
     IN /\ _events_queue' = r.q
        /\ handler' = r.h
  /\ nextEv' = nextEv + Len(kinds)
  /\ UNCHANGED <<_event_listeners, everAdded, log, lastMsg, reqVars, clientVars,
                 mqttVars, rtVars>>

\* the producer suspended in put() resumes when a slot is free
HandlerResumes ==
  /\ handler # <<>>
  /\ Len(_events_queue) < MaxQueue
  /\ LET r == PutAll(_events_queue, handler) IN
       /\ _events_queue' = r.q
       /\ handler' = r.h
  /\ UNCHANGED <<_event_listeners, everAdded, nextEv, lastMsg, log, reqVars, clientVars,
                 mqttVars, rtVars>>

\* Mqtt._reconnect, run by the reconnect timer, cancels the listen task while
\* the frame handler is suspended in put(): CancelledError is no Exception, so
\* it passes both except clauses of the handler and ends it; the Event being
\* put and the deltas not yet reached go with it.  The session reconnects and
\* a new listen task calls the handler for the frames that follow.
ReconnectCancelsHandler ==
  /\ _mqtt # None
  /\ handler # <<>>
  /\ handler' = <<>>
  /\ UNCHANGED <<_events_queue, _event_listeners, everAdded, nextEv, lastMsg, log,
                 reqVars, clientVars, mqttVars, rtVars>>

(* ------------------------ EventDispatcher ----------------------------- *)

\* self._event_listeners[event_name], the empty list when the kind has none
ListenersOf(d, kind) == IF kind \in DOMAIN d THEN d[kind] ELSE <<>>

InList(q, x) == \E j \in DOMAIN q : q[j] = x

\* list.remove(x): the list without its first x
RECURSIVE ListRemove(_, _)
ListRemove(q, x) ==
  IF q = <<>> THEN <<>>
  ELSE IF Head(q) = x THEN Tail(q)
  ELSE <<Head(q)>> \o ListRemove(Tail(q), x)

\* EventDispatcher.add_listener; a callback is registered for a kind once
AddListener(kind, x) ==
  /\ <<kind, x>> \notin everAdded
  /\ everAdded' = everAdded \cup {<<kind, x>>}
  /\ _event_listeners' =
       DictSet(_event_listeners, kind, Append(ListenersOf(_event_listeners, kind), x))
  /\ UNCHANGED <<_events_queue, handler, nextEv, lastMsg, log, reqVars, clientVars, mqttVars, rtVars>>

\* EventDispatcher.remove_listener, when the callback is registered
RemoveListener(kind, x) ==
  /\ InList(ListenersOf(_event_listeners, kind), x)
  /\ _event_listeners' =
       DictSet(_event_listeners, kind, ListRemove(_event_listeners[kind], x))
  /\ UNCHANGED <<_events_queue, everAdded, handler, nextEv, lastMsg, log, reqVars, clientVars,
                 mqttVars, rtVars>>

Called(ev, x) == [ev |-> ev.id, by |-> x]

\* the dispatch of loop's Event from position j of the kind's list on: the
\* next listener is called, or the on_<kind> method, or the dispatch is over
\* and the loop is back at `while self._listening`
DispatchFrom(loop, j, lg) ==
  LET ls == ListenersOf(_event_listeners, loop.ev.kind) IN
    IF j <= Len(ls)
      THEN [loop |-> [loop EXCEPT !.pc = "in_listener", !.i = j,
                                  !.called = @ \cup {ls[j]}],
            log |-> Append(lg, Called(loop.ev, ls[j]))]
    ELSE IF HasMethod(loop.ev.kind)
      THEN [loop |-> [loop EXCEPT !.pc = "in_method", !.i = 0],
            log |-> Append(lg, Called(loop.ev, OnMethod))]
    ELSE [loop |-> LoopHead(loop), log |-> lg]

\* parsedEvent = await self._events_queue.get() returns and
\* self.dispatch(...) runs up to its first await
LoopGet(l) ==
  /\ loops[l].pc = "get"
  /\ _events_queue # <<>>
  /\ _events_queue' = Tail(_events_queue)
  /\ LET ev == Head(_events_queue)
         r == DispatchFrom([loops[l] EXCEPT !.ev = ev,
                              !.reg = ListenersOf(_event_listeners, ev.kind)], 1, log)
     IN /\ loops' = [loops EXCEPT ![l] = r.loop]
        /\ log' = r.log
  /\ UNCHANGED <<_event_listeners, everAdded, handler, nextEv, lastMsg, _mqtt, _listening,
                 reqVars, mqttVars, rtVars>>

\* the listener run by dispatch loop l is suspended in a _send_request call
InSendRequest(l) ==
  \E c \in Calls : caller[c] = l /\ calls[c].pc \in {"publishing", "waiting"}

\* the running listener ends.  It returned: dispatch returns at once, the
\* listeners after it and the on_<kind> method are not called.  It raised: the
\* exception is logged and the for loop goes on at the next position of the
\* list as it is now.
ListenerEnds(l, raises) ==
  /\ loops[l].pc = "in_listener"
  /\ ~InSendRequest(l)
  /\ LET r == IF raises THEN DispatchFrom(loops[l], loops[l].i + 1, log)
                        ELSE [loop |-> LoopHead(loops[l]), log |-> log]
     IN /\ loops' = [loops EXCEPT ![l] = r.loop]
        /\ log' = r.log
  /\ UNCHANGED <<_events_queue, _event_listeners, everAdded, handler, nextEv, lastMsg, _mqtt,
                 _listening, reqVars, mqttVars, rtVars>>

\* the on_<kind> method returns or raises: the dispatch is over
MethodEnds(l) ==
  /\ loops[l].pc = "in_method"
  /\ loops' = [loops EXCEPT ![l] = LoopHead(@)]
  /\ UNCHANGED <<_mqtt, _listening, reqVars, dispVars, mqttVars, rtVars>>

(* --------------------------- the delta decoder ------------------------ *)
\* A payload is described by what the decoders find in it.  A delta of a /t_ms
\* frame: class is the value of its "class" tag; inner is, for ClientPayload,
\* the field set in the first entry of the decoded byte payload ("empty": the
\* list has no entry) and, for AdminTextMessage, the value of "type"; data says
\* how the rest of the delta is: "ok", "malformed" (a required field is missing
\* or of the wrong type), "remove_admin" (untypedData holds remove_admin),
\* "bad_inner" (untypedData is not of the shape its type calls for).

\* the exceptions of the decoders, all subclasses of Exception
NoExc == "NoExc"
DecoderExceptions == {"DecodeError", "ValidationError", "ParsingError"}

\* the classes of the DeltaTypes union that parse_deltas has an isinstance
\* branch for, with the EventType the branch returns
ClassEvent ==
  [NewMessage |-> "message",
   AdminRemovedFromGroupThread |-> "admin_removed",
   ParticipantsAddedToGroupThread |-> "participant_joined",
   ParticipantLeftGroupThread |-> "participant_left",
   ApprovalMode |-> "approval_mode_change",
   ApprovalQueue |-> "approval_queue",
   ThreadName |-> "thread_name_change",
   ReadReceipt |-> "message_seen",
   DeliveryReceipt |-> "message_delivered",
   MarkRead |-> "mark_read",
   MarkUnread |-> "mark_unread",
   ThreadAction |-> "thread_action",
   ThreadFolder |-> "thread_folder_move",
   ThreadDelete |-> "thread_delete",
   ThreadMuteSettings |-> "thread_mute_settings"]

\* the classes of the DeltaTypes union: delta_wrapper.py, group_deltas.py,
\* timestamps.py
DeltaTypes ==
  DOMAIN ClassEvent \cup
  {"ClientPayload", "AdminTextMessage", "NoOp", "MarkFolderSeen", "JoinableMode",
   "ForcedFetch"}

\* the fields of DeltaMessageReply that parse_deltas tests, in the order of
\* its if/elif chain, with the EventType returned
PayloadEvent ==
  [deltaMessageReply |-> "message",
   deltaMessageReply_replyType1 |-> "message_bump",
   deltaMessageReaction |-> "message_reaction",
   deltaRecallMessageData |-> "message_unsent",
   deltaRemoveMessage |-> "message_remove",
   deltaMuteCallsFromThread |-> "thread_mute",
   deltaBiiMPageMessageNotification |-> "page_notification"]

\* the other fields of DeltaMessageReply: decoded, and tested by no branch
PayloadFields ==
  DOMAIN PayloadEvent \cup
  {"deltaUpdateThreadTheme", "deltaUpdateThreadEmoji", "deltaUpdateMagicWords",
   "deltaPromoteGroupThreadAdmin", "deltaAcceptGroupThread",
   "deltaUpdatePinnedThread", "deltaChangeViewerStatus"}

\* group_deltas.AllAdminText
AllAdminText ==
  {"joinable_group_link_mode_change", "joinable_group_link_reset",
   "change_thread_nickname", "change_thread_theme", "change_thread_admins",
   "change_thread_quick_reaction", "magic_words", "limit_sharing",
   "instant_game_dynamic_custom_update", "unpin_messages_v2", "pin_messages_v2"}

\* MessageParser.admin_text_to_event
admin_text_to_event ==
  [joinable_group_link_reset |-> "joinable_link_reset",
   joinable_group_link_mode_change |-> "joinable_mode_change",
   change_thread_nickname |-> "nickname_change",
   change_thread_theme |-> "theme_change",
   change_thread_approval_mode |-> "approval_mode_change",
   change_thread_quick_reaction |-> "emoji_change",
   change_thread_admins |-> "admin_added",
   magic_words |-> "magic_words_change",
   limit_sharing |-> "message_sharing_change",
   instant_game_dynamic_custom_update |-> "game_update",
   pin_messages_v2 |-> "message_pinned",
   unpin_messages_v2 |-> "message_unpinned"]

\* the keys of MessageParser.get_decoder
get_decoder ==
  {"admin_added", "message_pinned", "message_sharing_change", "magic_words_change",
   "nickname_change", "theme_change", "emoji_change", "message_unpinned"}

\* an inner type name the tables do not know
UnknownAdminText == "some_new_admin_text"
\* a "class" tag outside the DeltaTypes union
UnknownClass == "SomeNewDelta"

Delta(c, i, d) == [class |-> c, inner |-> i, data |-> d]

\* delta_decoder.decode accepts the delta: its tag is in the union and its
\* fields have the declared types (the byte payload of a ClientPayload
\* included, which the decoder hook decodes)
Decodes(d) == d.class \in DeltaTypes /\ d.data # "malformed"

\* MessageParser.parse_deltas on a decoded delta: an EventType, None, or the
\* ParsingError it wraps every exception in
parse_deltas(d) ==
  IF d.class = "ClientPayload" THEN
    IF d.inner = "empty" THEN "ParsingError"          \* data.deltas[0]: IndexError
    ELSE IF d.inner \in DOMAIN PayloadEvent THEN PayloadEvent[d.inner]
    ELSE None
  ELSE IF d.class \in DOMAIN ClassEvent THEN ClassEvent[d.class]
  ELSE IF d.class = "AdminTextMessage" THEN
    IF d.data = "remove_admin" \/ d.inner \notin AllAdminText THEN None
    ELSE IF admin_text_to_event[d.inner] \notin get_decoder
      THEN "ParsingError"                              \* get_decoder[...]: KeyError
    ELSE IF d.data = "bad_inner" THEN "ParsingError"   \* the second decode fails
    ELSE admin_text_to_event[d.inner]
  ELSE None

\* the for loop of _handle_mqtt_messages over the generator parse_t_ms
\* returns: the Events put before the first delta that raises, in delta order,
\* None results skipped; exc is what the generator raised
RECURSIVE PutDeltas(_)
PutDeltas(ds) ==
  IF ds = <<>> THEN [evs |-> <<>>, exc |-> NoExc]
  ELSE LET e == parse_deltas(Head(ds)) IN
    IF e \in DecoderExceptions THEN [evs |-> <<>>, exc |-> e]
    ELSE LET r == PutDeltas(Tail(ds)) IN
      [r EXCEPT !.evs = IF e = None THEN @ ELSE <<e>> \o @]

\* MessageParser.parse_t_ms: the payload is decoded as JSON for the debug log,
\* then as a DeltaWrapper: one delta the decoder rejects fails the frame
parse_t_ms(m) ==
  IF ~m.json THEN [evs |-> <<>>, exc |-> "DecodeError"]
  ELSE IF \E j \in DOMAIN m.deltas : ~Decodes(m.deltas[j])
    THEN [evs |-> <<>>, exc |-> "ValidationError"]
  ELSE PutDeltas(m.deltas)

\* the "type" tags of the FacebookNotifications union, with the Event
\* parse_notifications makes of the decoded notification
NotificationEvent ==
  [mobile_requests_count |-> "friend_request_list_update",
   friending_state_change |-> "friend_request_change",
   live_poke |-> "poke_nofification",
   jewel_requests_remove_old |-> None,
   friend_requests_seen |-> None,
   notifications_seen |-> None,
   nav_update_counts |-> None,
   jewel_friending_notifs |-> None]

\* MessageParser.parse_all on a message that is not a /t_ms delta batch; m.inner
\* is what the branch looks for in the payload
parse_all(m) ==
  IF ~m.json THEN [evs |-> <<>>, exc |-> "DecodeError"]    \* json.decode for the log
  ELSE IF m.topic \in {"/thread_typing", "/orca_typing_notifications"}
          /\ (m.topic = "/orca_typing_notifications" \/ m.inner = "typ") THEN
    IF m.data = "ok" THEN [evs |-> <<"typing">>, exc |-> NoExc]
    ELSE [evs |-> <<>>, exc |-> "ValidationError"]
  ELSE IF m.topic = "/orca_presence" /\ m.inner = "list_type" THEN
    IF m.data = "ok" THEN [evs |-> <<"presence">>, exc |-> NoExc]
    ELSE [evs |-> <<>>, exc |-> "ValidationError"]
  ELSE IF m.topic = "/legacy_web" THEN       \* the filter object is always true
    IF m.inner \in DOMAIN NotificationEvent /\ m.data = "ok" THEN
      [evs |-> IF NotificationEvent[m.inner] = None THEN <<>>
                ELSE <<NotificationEvent[m.inner]>>,
       exc |-> NoExc]
    ELSE [evs |-> <<>>, exc |-> "ValidationError"]
  ELSE IF m.inner = "syncToken1" THEN        \* the first-fetch marker
    IF m.data = "ok" THEN [evs |-> <<>>, exc |-> NoExc]
    ELSE [evs |-> <<>>, exc |-> "ValidationError"]
  ELSE [evs |-> <<>>, exc |-> NoExc]

\* the mutant: a handler without its try/except
ExceptNothing(r) == r

\* try: ... except Exception as e: self.logger.error(...)
ExceptException(r) ==
  IF r.exc \in DecoderExceptions THEN [r EXCEPT !.exc = NoExc] ELSE r

\* Client._handle_mqtt_messages on a message that is not a reply on /ls_resp:
\* the Events it puts in the queue, in order, and the exception that leaves it
\* (a malformed /ls_resp payload fails in _parse_ls_resp.decode)
_handle_mqtt_messages(m) ==
  ExceptException(
    IF m.topic = "/ls_resp" THEN [evs |-> <<>>, exc |-> "ValidationError"]
    ELSE IF m.topic = "/t_ms" /\ m.deltas # <<>> THEN ExceptException(parse_t_ms(m))
    ELSE parse_all(m))

(* ------------------------------ the cursor ---------------------------- *)

Absent == 0 - 1        \* a cursor field the scan did not find in the frame
SeqVals == 0..MaxSeq
Tokens == {"1", "2"}

\* what extract_meta's three regular expressions find in a payload
NoFrame == [first |-> Absent, last |-> Absent, token |-> None]
AllFrames == [first : SeqVals \cup {Absent}, last : SeqVals \cup {Absent},
              token : Tokens \cup {None}]

\* Python's `x or y` on an optional int: None and 0 are both falsy
Truthy(x) == x # Absent /\ x # 0

\* extract_meta: ids["lastIssuedSeqId"] or ids["firstDeltaSeqId"] or self._sequence_id
ExtractSeq(f, seq) ==
  IF Truthy(f.last) THEN f.last
  ELSE IF Truthy(f.first) THEN f.first
  ELSE seq

\* extract_meta: ids["syncToken"] or self._sync_token
ExtractToken(f, tok) == IF f.token # None THEN f.token ELSE tok

\* the mutant: every bootstrap asks for diffs
BootstrapGetDiffs(tok, seq) ==
  [topic |-> "/messenger_sync_get_diffs", seq |-> seq, sync_token |-> tok]

\* the mutant: every bootstrap creates the queue
BootstrapCreateQueue(tok, seq) ==
  [topic |-> "/messenger_sync_create_queue", seq |-> seq, sync_token |-> None]

\* Mqtt._messenger_queue_publish: the control message chosen by the cursor
BootstrapMessage(tok, seq) ==
  IF tok = None
    THEN [topic |-> "/messenger_sync_create_queue", seq |-> seq, sync_token |-> None]
    ELSE [topic |-> "/messenger_sync_get_diffs", seq |-> seq, sync_token |-> tok]

\* a message as the listen loop receives it; meta: its cursor fields
Msg(topic, json, deltas, inner, data, meta) ==
  [topic |-> topic, json |-> json, deltas |-> deltas, inner |-> inner,
   data |-> data, meta |-> meta]

\* no message handled yet
NoMsg == [msg |-> Msg(None, TRUE, <<>>, "", "ok", NoFrame), evs |-> <<>>,
          exc |-> NoExc]

(* ------------------------------ the session --------------------------- *)
\* the frames of the session runs: a first-fetch marker carrying a syncToken,
\* and a delta batch carrying lastIssuedSeqId
MqttFrames == {[first |-> 1, last |-> Absent, token |-> "1"],
               [first |-> Absent, last |-> MaxSeq, token |-> None]}


FetchIds == 1..MaxFetch          \* values _fetch_sequence_id may return

NewClient == [st |-> "connecting", boot |-> <<>>]

\* a task as asyncio.create_task leaves it; born: self._mqttClient at creation
NewTask(kind) ==
  [kind |-> kind, pc |-> "start", cancel |-> FALSE, wait |-> 0, conn |-> 0,
   born |-> _mqttClient, fetched |-> Absent, blocking |-> FALSE]

IsDone(ts, u) == ts[u].pc = "done"

\* _cancel_task's test: task and not task.done()
NeedsCancel(ts, u) == u # 0 /\ ~IsDone(ts, u)

\* Task.cancel(): the task in which CancelledError will be raised, 0 for none.
\* A task suspended in `await task` hands the request to the task it awaits;
\* when that task is done already (or is the task itself) the CancelledError
\* is raised at `await task` inside _cancel_task, which swallows it.
RECURSIVE CancelHits(_, _)
CancelHits(ts, u) ==
  IF IsDone(ts, u) THEN 0
  ELSE IF ts[u].wait = 0 THEN u
  ELSE IF ts[u].wait = u \/ IsDone(ts, ts[u].wait) THEN 0
  ELSE CancelHits(ts, ts[u].wait)

Cancel(ts, u) ==
  LET h == CancelHits(ts, u) IN
    IF h = 0 THEN ts ELSE [ts EXCEPT ![h].cancel = TRUE]

\* `await task` in _cancel_task, by a caller other than the task.  A task that
\* once awaited itself keeps _asyncio_future_blocking set, and CPython's
\* future (the _asyncio module) then refuses the next awaiter with
\* RuntimeError("await wasn't used with future").
AwaitRaises(ts, u) == ts[u].blocking /\ ~IsDone(ts, u)

\* client.__aexit__ is called on client k
Close(cl, k) == [cl EXCEPT ![k].st = "closed"]

\* self._mqttClient._client.is_connected()
IsConnected(cl, k) == cl[k].st = "open"

Finished(task) ==
  [task EXCEPT !.pc = "done", !.cancel = FALSE, !.wait = 0, !.blocking = FALSE]

\* the mutant: the control message is built and never handed to the transport
PublishNothing(cl, k, m, s) == cl

\* _messenger_queue_publish: await self._mqttClient.publish(topic, payload, qos=1);
\* the message goes out on client k; s is the sequence id the caller fetched
Publish(cl, k, m, s) == [cl EXCEPT ![k].boot = Append(@, [msg |-> m, fetched |-> s])]

config == <<_update_presence, _auto_reconnect>>
taskRefs == <<_listen_task, _presence_task, _reconnect_task>>
outside == <<reqVars, clientVars, dispVars, rtVars>>

(* ----- _reconnect, lines 373-381: the synchronous runs between awaits ---- *)

\* if self._mqttClient: await self._mqttClient.__aexit__(None, None, None)
RcAexit(ts, cl, t) ==
  [ts |-> [ts EXCEPT ![t].pc = "rc_aexit", ![t].wait = 0, ![t].conn = _mqttClient],
   cl |-> Close(cl, _mqttClient)]

\* await self._cancel_task(self._presence_task)
RcCancelPresence(ts, cl, t) ==
  IF NeedsCancel(ts, _presence_task)
    THEN [ts |-> [Cancel(ts, _presence_task) EXCEPT ![t].pc = "rc_wait_presence",
                                                   ![t].wait = _presence_task],
          cl |-> cl]
    ELSE RcAexit(ts, cl, t)

\* the mutant: a reconnect that leaves the listen task alone
RcCancelListenSkipped(ts, cl, t) == RcCancelPresence(ts, cl, t)

\* await self._cancel_task(self._listen_task); when the task is the caller
\* itself (the reconnect started by listen) the cancel is raised at its own
\* `await task` and swallowed there
RcCancelListen(ts, cl, t) ==
  IF NeedsCancel(ts, _listen_task)
    THEN [ts |-> [(IF _listen_task = t THEN [ts EXCEPT ![t].blocking = TRUE]
                                       ELSE Cancel(ts, _listen_task))
                    EXCEPT ![t].pc = "rc_wait_listen", ![t].wait = _listen_task],
          cl |-> cl]
    ELSE RcCancelPresence(ts, cl, t)

\* the mutant: a supervisor that makes one attempt and ends
AfterReconnectEnds(task) == [Finished(task) EXCEPT !.conn = 0, !.fetched = Absent]

\* where the task that ran _reconnect goes when _reconnect ends: the timer is
\* back at `while self._running`, listen falls through its finally clause
AfterReconnect(task) ==
  IF task.kind = "timer" /\ _running
    THEN [task EXCEPT !.pc = "sleep", !.wait = 0, !.conn = 0, !.fetched = Absent]
    ELSE [Finished(task) EXCEPT !.conn = 0, !.fetched = Absent]

\* an exception leaves _reconnect: _schedule_reconnect catches and logs it,
\* listen lets it through; self._reconnecting stays True
RcRaise(t, cl) ==
  /\ rcOutcome' = "failed"
  /\ tasks' = [tasks EXCEPT ![t] = AfterReconnect(@)]
  /\ clients' = cl
  /\ UNCHANGED <<_running, _reconnecting, config, _mqttClient, taskRefs, connector,
                 stopper, cursorVars, outside>>

\* self._reconnecting = True, then the first cancellation; when `await task`
\* on the listen task raises, the exception leaves _reconnect at once
RcEnter(t) ==
  /\ _reconnecting' = TRUE
  /\ IF NeedsCancel(tasks, _listen_task) /\ _listen_task # t
        /\ AwaitRaises(tasks, _listen_task)
       THEN /\ rcOutcome' = "failed"
            /\ tasks' = [Cancel(tasks, _listen_task) EXCEPT ![t] = AfterReconnect(@)]
            /\ clients' = clients
       ELSE /\ rcOutcome' = "none"
            /\ LET r == RcCancelListen(tasks, clients, t) IN
                 /\ tasks' = r.ts
                 /\ clients' = r.cl
  /\ UNCHANGED <<_running, config, _mqttClient, taskRefs, connector, stopper,
                 cursorVars, outside>>

(* ------------------------------ Mqtt.connect -------------------------- *)

\* await self._mqttClient.__aenter__() ends; when connected the bootstrap
\* publish is started
ConnectEntered(outcome) ==
  /\ connector = "connecting"
  /\ clients[1].st = "connecting"
  /\ LET cl == [clients EXCEPT ![1].st = IF outcome = "raise" THEN "closed" ELSE outcome] IN
       IF outcome = "raise" THEN
         /\ connector' = "failed"
         /\ clients' = cl
       ELSE IF IsConnected(cl, _mqttClient) THEN
         /\ connector' = "publishing"
         /\ clients' = Publish(cl, _mqttClient,
                                BootstrapMessage(_sync_token, _sequence_id), _sequence_id)
       ELSE
         /\ connector' = "returned"
         /\ clients' = cl
  /\ UNCHANGED <<_running, _reconnecting, config, _mqttClient, taskRefs, tasks,
                 stopper, rcOutcome, cursorVars, outside>>

\* the bootstrap publish returns: _running = True and the background tasks
\* are created (presence, reconnect timer, listen); or it raises
ConnectPublished(ok) ==
  /\ connector = "publishing"
  /\ IF ok THEN
       LET n == Len(tasks)
           p == IF _update_presence THEN <<NewTask("presence")>> ELSE <<>>
           r == IF _auto_reconnect THEN <<NewTask("timer")>> ELSE <<>>
       IN /\ _running' = TRUE
          /\ tasks' = tasks \o p \o r \o <<NewTask("listen")>>
          /\ _presence_task' = IF _update_presence THEN n + 1 ELSE 0
          /\ _reconnect_task' = IF _auto_reconnect THEN n + Len(p) + 1 ELSE 0
          /\ _listen_task' = n + Len(p) + Len(r) + 1
          /\ connector' = "returned"
     ELSE
       /\ connector' = "failed"
       /\ UNCHANGED <<_running, tasks, taskRefs>>
  /\ UNCHANGED <<_reconnecting, config, _mqttClient, clients, stopper, rcOutcome,
                 cursorVars, outside>>

(* ------------------------------ Mqtt.listen --------------------------- *)

\* first run of the task: async for message in self._mqttClient.messages
ListenStart(t) ==
  /\ tasks[t].kind = "listen" /\ tasks[t].pc = "start" /\ ~tasks[t].cancel
  /\ tasks' = [tasks EXCEPT ![t].pc = "recv", ![t].conn = _mqttClient]
  /\ UNCHANGED <<_running, _reconnecting, config, _mqttClient, taskRefs, clients,
                 connector, stopper, rcOutcome, cursorVars, outside>>

\* listen's test before extract_meta
HasCursorField(f) == f.last # Absent \/ f.first # Absent \/ f.token # None

\* a frame arrives: the loop breaks when the session is neither running nor
\* reconnecting, else the cursor is scanned and the frame handed to the handler
ListenFrame(t, f) ==
  /\ tasks[t].kind = "listen" /\ tasks[t].pc = "recv" /\ ~tasks[t].cancel
  /\ clients[tasks[t].conn].st = "open"
  /\ IF ~_running /\ ~_reconnecting THEN
       /\ tasks' = [tasks EXCEPT ![t] = Finished(@)]
       /\ UNCHANGED cursorVars
     ELSE
       /\ _sequence_id' = IF HasCursorField(f) THEN ExtractSeq(f, _sequence_id)
                                               ELSE _sequence_id
       /\ _sync_token' = IF HasCursorField(f) THEN ExtractToken(f, _sync_token)
                                              ELSE _sync_token
       /\ lastFrame' = f
       /\ UNCHANGED tasks
  /\ UNCHANGED <<_running, _reconnecting, config, _mqttClient, taskRefs, clients,
                 connector, stopper, rcOutcome, outside>>

\* the frame stream raises (the transport was closed or lost):
\* except Exception, then _reconnect() when running and auto-reconnect
ListenStreamFails(t) ==
  /\ tasks[t].kind = "listen" /\ tasks[t].pc = "recv" /\ ~tasks[t].cancel
  /\ clients[tasks[t].conn].st \in {"closed", "lost"}
  /\ IF _running /\ _auto_reconnect THEN
       /\ Len(clients) < MaxClients
       /\ RcEnter(t)
     ELSE
       /\ tasks' = [tasks EXCEPT ![t] = Finished(@)]
       /\ UNCHANGED <<_running, _reconnecting, config, _mqttClient, taskRefs, clients,
                      connector, stopper, rcOutcome, cursorVars, outside>>

(* -------------------------- _schedule_reconnect ----------------------- *)

\* first run of the task: while self._running, then the long sleep
TimerStart(t) ==
  /\ tasks[t].kind = "timer" /\ tasks[t].pc = "start" /\ ~tasks[t].cancel
  /\ tasks' = [tasks EXCEPT ![t] = IF _running THEN [@ EXCEPT !.pc = "sleep"]
                                              ELSE Finished(@)]
  /\ UNCHANGED <<_running, _reconnecting, config, _mqttClient, taskRefs, clients,
                 connector, stopper, rcOutcome, cursorVars, outside>>

\* the jittered sleep ends: await self._reconnect()
TimerFires(t) ==
  /\ tasks[t].kind = "timer" /\ tasks[t].pc = "sleep" /\ ~tasks[t].cancel
  /\ Len(clients) < MaxClients
  /\ RcEnter(t)

(* ------------------------------ _reconnect ---------------------------- *)

\* `await task` on the listen task returns (or raises CancelledError, which
\* _cancel_task swallows): go on to the presence task
RcListenAwaited(t) ==
  /\ tasks[t].pc = "rc_wait_listen"
  /\ tasks[t].wait = t \/ IsDone(tasks, tasks[t].wait)
  /\ LET r == RcCancelPresence(tasks, clients, t) IN
       /\ tasks' = r.ts
       /\ clients' = r.cl
  /\ UNCHANGED <<_running, _reconnecting, config, _mqttClient, taskRefs, connector,
                 stopper, rcOutcome, cursorVars, outside>>

\* `await task` on the presence task returns: close the current transport
RcPresenceAwaited(t) ==
  /\ tasks[t].pc = "rc_wait_presence"
  /\ IsDone(tasks, tasks[t].wait)
  /\ LET r == RcAexit(tasks, clients, t) IN
       /\ tasks' = r.ts
       /\ clients' = r.cl
  /\ UNCHANGED <<_running, _reconnecting, config, _mqttClient, taskRefs, connector,
                 stopper, rcOutcome, cursorVars, outside>>

\* __aexit__ returns, then await asyncio.sleep(2); or __aexit__ raises
RcAexitDone(t, ok) ==
  /\ tasks[t].pc = "rc_aexit" /\ ~tasks[t].cancel
  /\ IF ok THEN
       /\ tasks' = [tasks EXCEPT ![t].pc = "rc_sleep"]
       /\ UNCHANGED <<_running, _reconnecting, config, _mqttClient, taskRefs, clients,
                      connector, stopper, rcOutcome, cursorVars, outside>>
     ELSE RcRaise(t, clients)

\* the 2 s sleep ends: a new client id, then await self._fetch_sequence_id
RcSleepDone(t) ==
  /\ tasks[t].pc = "rc_sleep" /\ ~tasks[t].cancel
  /\ tasks' = [tasks EXCEPT ![t].pc = "rc_fetch"]
  /\ UNCHANGED <<_running, _reconnecting, config, _mqttClient, taskRefs, clients,
                 connector, stopper, rcOutcome, cursorVars, outside>>

\* the fetch returns s: self._sequence_id = s, a new aiomqtt.Client is built
\* and configured and its __aenter__ is awaited
RcFetchDone(t, s) ==
  /\ tasks[t].pc = "rc_fetch" /\ ~tasks[t].cancel
  /\ Len(clients) < MaxClients
  /\ _sequence_id' = s
  /\ clients' = Append(clients, NewClient)
  /\ _mqttClient' = Len(clients) + 1
  /\ tasks' = [tasks EXCEPT ![t].pc = "rc_connect", ![t].conn = Len(clients) + 1,
                            ![t].fetched = s]
  /\ UNCHANGED <<_running, _reconnecting, config, taskRefs, connector, stopper,
                 rcOutcome, _sync_token, lastFrame, outside>>

\* the fetch raises
RcFetchFails(t) ==
  /\ tasks[t].pc = "rc_fetch" /\ ~tasks[t].cancel
  /\ RcRaise(t, clients)

\* the mutant: the bootstrap of a reconnect is built from the token as it is
RcTokenKept(tok) == tok

\* self._sync_token = None, on the connected branch of _reconnect
RcToken(tok) == None

\* __aenter__ ends.  Connected: the token is cleared and the bootstrap publish
\* started.  Not connected: self._reconnecting = False and _reconnect returns.
RcConnectDone(t, outcome) ==
  /\ tasks[t].pc = "rc_connect" /\ ~tasks[t].cancel
  /\ LET k == tasks[t].conn
         cl == [clients EXCEPT ![k].st =
                  IF outcome = "raise" THEN "closed" ELSE outcome]
     IN
       IF outcome = "raise" THEN RcRaise(t, cl)
       ELSE
         /\ clients[k].st = "connecting"
         /\ IF IsConnected(cl, _mqttClient) THEN
              /\ _sync_token' = RcToken(_sync_token)
              /\ clients' = Publish(cl, _mqttClient,
                                     BootstrapMessage(_sync_token', _sequence_id),
                                     tasks[t].fetched)
              /\ tasks' = [tasks EXCEPT ![t].pc = "rc_publish", ![t].conn = _mqttClient]
              /\ UNCHANGED <<_reconnecting, rcOutcome>>
            ELSE
              /\ _reconnecting' = FALSE
              /\ rcOutcome' = "failed"
              /\ clients' = cl
              /\ tasks' = [tasks EXCEPT ![t] = AfterReconnect(@)]
              /\ UNCHANGED _sync_token
         /\ UNCHANGED <<_running, config, _mqttClient, taskRefs, connector, stopper,
                        _sequence_id, lastFrame, outside>>

\* the bootstrap publish returns: the listen and presence tasks are created
\* and self._reconnecting = False; or it raises
RcPublishDone(t, ok) ==
  /\ tasks[t].pc = "rc_publish" /\ ~tasks[t].cancel
  /\ IF ok THEN
       /\ tasks' = [tasks EXCEPT ![t] = AfterReconnect(@)]
                     \o <<NewTask("listen"), NewTask("presence")>>
       /\ _listen_task' = Len(tasks) + 1
       /\ _presence_task' = Len(tasks) + 2
       /\ _reconnecting' = FALSE
       /\ rcOutcome' = "ok"
       /\ UNCHANGED <<_running, config, _mqttClient, _reconnect_task, clients,
                      connector, stopper, cursorVars, outside>>
     ELSE RcRaise(t, clients)

(* --------------------------- _presence_updater ------------------------ *)

\* while self._running: publish when connected, else sleep 50 s
PresenceLoop(t) ==
  /\ tasks[t].kind = "presence" /\ ~tasks[t].cancel
  /\ tasks[t].pc \in {"start", "p_sleep", "p_backoff"}
  /\ tasks' = [tasks EXCEPT ![t] =
       IF ~_running THEN Finished(@)
       ELSE IF IsConnected(clients, _mqttClient) THEN [@ EXCEPT !.pc = "p_publish"]
       ELSE [@ EXCEPT !.pc = "p_sleep"]]
  /\ UNCHANGED <<_running, _reconnecting, config, _mqttClient, taskRefs, clients,
                 connector, stopper, rcOutcome, cursorVars, outside>>

\* the mutant: a heartbeat that lets the publish's exception through
PresenceAfterPublishEnds(task, ok) ==
  IF ok THEN [task EXCEPT !.pc = "p_sleep"] ELSE Finished(task)

\* after the publish: await asyncio.sleep(50); or except Exception: the error
\* is logged, then await asyncio.sleep(10)
PresenceAfterPublish(task, ok) ==
  [task EXCEPT !.pc = IF ok THEN "p_sleep" ELSE "p_backoff"]

\* the presence publish returns (then sleep 50 s) or raises (then sleep 10 s)
PresencePublishDone(t, ok) ==
  /\ tasks[t].kind = "presence" /\ ~tasks[t].cancel
  /\ tasks[t].pc = "p_publish"
  /\ tasks' = [tasks EXCEPT ![t] = PresenceAfterPublish(@, ok)]
  /\ UNCHANGED <<_running, _reconnecting, config, _mqttClient, taskRefs, clients,
                 connector, stopper, rcOutcome, cursorVars, outside>>

(* ------------------------------ cancellation -------------------------- *)

InReconnect(task) ==
  task.pc \in {"rc_wait_listen", "rc_wait_presence", "rc_aexit", "rc_sleep",
               "rc_fetch", "rc_connect", "rc_publish"}

\* CancelledError is raised in a task at the await it is suspended in (or
\* before its first run).  listen and _presence_updater catch it and return;
\* inside _reconnect, and in the timer's sleep, nothing catches it: the task
\* ends there.
TaskCancelled(t) ==
  /\ tasks[t].cancel
  /\ tasks[t].pc # "done"
  /\ tasks' = [tasks EXCEPT ![t] = Finished(@)]
  /\ rcOutcome' = IF InReconnect(tasks[t]) THEN "cancelled" ELSE rcOutcome
  /\ UNCHANGED <<_running, _reconnecting, config, _mqttClient, taskRefs, clients,
                 connector, stopper, cursorVars, outside>>

(* ------------------------------ Mqtt.stop ----------------------------- *)

\* if self._mqttClient: try: await self._mqttClient.__aexit__(None, None, None)
StopAexit(ts, cl) ==
  [ts |-> ts, cl |-> Close(cl, _mqttClient), st |-> [pc |-> "s_aexit", wait |-> 0]]

\* await self._cancel_task(self._presence_task)
StopCancelPresence(ts, cl) ==
  IF NeedsCancel(ts, _presence_task)
    THEN [ts |-> Cancel(ts, _presence_task), cl |-> cl,
          st |-> [pc |-> "s_wait_presence", wait |-> _presence_task]]
    ELSE StopAexit(ts, cl)

\* await self._cancel_task(self._reconnect_task)
StopCancelTimer(ts, cl) ==
  IF NeedsCancel(ts, _reconnect_task)
    THEN [ts |-> Cancel(ts, _reconnect_task), cl |-> cl,
          st |-> [pc |-> "s_wait_timer", wait |-> _reconnect_task]]
    ELSE StopCancelPresence(ts, cl)

\* await self._cancel_task(self._listen_task); a RuntimeError at `await task`
\* is not caught and ends stop()
StopCancelListen(ts, cl) ==
  IF NeedsCancel(ts, _listen_task)
    THEN [ts |-> Cancel(ts, _listen_task), cl |-> cl,
          st |-> IF AwaitRaises(ts, _listen_task)
                   THEN [pc |-> "raised", wait |-> 0]
                   ELSE [pc |-> "s_wait_listen", wait |-> _listen_task]]
    ELSE StopCancelTimer(ts, cl)

StopGoes(r) ==
  /\ tasks' = r.ts
  /\ clients' = r.cl
  /\ stopper' = [pc |-> r.st.pc, wait |-> r.st.wait,
                 rc |-> IF stopper.pc = "idle"
                          THEN {t \in DOMAIN tasks : InReconnect(tasks[t])}
                          ELSE stopper.rc]
  /\ UNCHANGED <<_reconnecting, config, _mqttClient, taskRefs, connector, rcOutcome,
                 cursorVars, outside>>

\* stop() is called on the Mqtt object connect returned: self._running = False,
\* then the first cancellation
StopEnter ==
  /\ connector = "returned"
  /\ stopper.pc = "idle"
  /\ _running' = FALSE
  /\ StopGoes(StopCancelListen(tasks, clients))

StopListenAwaited ==
  /\ stopper.pc = "s_wait_listen"
  /\ IsDone(tasks, stopper.wait)
  /\ StopGoes(StopCancelTimer(tasks, clients))
  /\ UNCHANGED _running

StopTimerAwaited ==
  /\ stopper.pc = "s_wait_timer"
  /\ IsDone(tasks, stopper.wait)
  /\ StopGoes(StopCancelPresence(tasks, clients))
  /\ UNCHANGED _running

StopPresenceAwaited ==
  /\ stopper.pc = "s_wait_presence"
  /\ IsDone(tasks, stopper.wait)
  /\ StopGoes(StopAexit(tasks, clients))
  /\ UNCHANGED _running

\* __aexit__ returns or raises (the exception is caught and logged)
StopAexitDone ==
  /\ stopper.pc = "s_aexit"
  /\ stopper' = [stopper EXCEPT !.pc = "done", !.wait = 0]
  /\ UNCHANGED <<_running, _reconnecting, config, _mqttClient, taskRefs, clients,
                 tasks, connector, rcOutcome, cursorVars, outside>>

(* ------------------------------ the network --------------------------- *)

\* an open connection is lost
ConnLost(k) ==
  /\ clients[k].st = "open"
  /\ clients' = [clients EXCEPT ![k].st = "lost"]
  /\ UNCHANGED <<_running, _reconnecting, config, _mqttClient, taskRefs, tasks,
                 connector, stopper, rcOutcome, cursorVars, outside>>

(* ------------------------------ initial states ------------------------ *)

InitCursor ==
  /\ _sequence_id \in FetchIds
  /\ _sync_token = None
  /\ lastFrame = NoFrame

\* Mqtt.connect has fetched the sequence id, built the Mqtt object and its
\* client, and awaits __aenter__
InitSession ==
  /\ _running = FALSE
  /\ _reconnecting = FALSE
  /\ _update_presence \in BOOLEAN
  /\ _auto_reconnect \in BOOLEAN
  /\ _mqttClient = 1
  /\ _listen_task = 0
  /\ _presence_task = 0
  /\ _reconnect_task = 0
  /\ clients = <<NewClient>>
  /\ tasks = <<>>
  /\ connector = "connecting"
  /\ stopper = [pc |-> "idle", wait |-> 0, rc |-> {}]
  /\ rcOutcome = "none"

\* no Mqtt object yet: the state of the client before start_listening
InitNoSession ==
  /\ _sequence_id = 0
  /\ _sync_token = None
  /\ lastFrame = NoFrame
  /\ _running = FALSE
  /\ _reconnecting = FALSE
  /\ _update_presence = TRUE
  /\ _auto_reconnect = TRUE
  /\ _mqttClient = 0
  /\ _listen_task = 0
  /\ _presence_task = 0
  /\ _reconnect_task = 0
  /\ clients = <<>>
  /\ tasks = <<>>
  /\ connector = "none"
  /\ stopper = [pc |-> "idle", wait |-> 0, rc |-> {}]
  /\ rcOutcome = "none"

\* Client.__init__: an empty bounded queue, no listeners
InitDisp ==
  /\ _events_queue = <<>>
  /\ _event_listeners = [k \in {} |-> <<>>]
  /\ everAdded = {}
  /\ handler = <<>>
  /\ nextEv = 0
  /\ log = <<>>
  /\ lastMsg = NoMsg

NextMqtt ==
  \/ \E o \in {"open", "lost", "raise"} : ConnectEntered(o)
  \/ \E ok \in BOOLEAN : ConnectPublished(ok)
  \/ \E t \in DOMAIN tasks : ListenStart(t)
  \/ \E t \in DOMAIN tasks, f \in MqttFrames : ListenFrame(t, f)
  \/ \E t \in DOMAIN tasks : ListenStreamFails(t)
  \/ \E t \in DOMAIN tasks : TimerStart(t)
  \/ \E t \in DOMAIN tasks : TimerFires(t)
  \/ \E t \in DOMAIN tasks : RcListenAwaited(t)
  \/ \E t \in DOMAIN tasks : RcPresenceAwaited(t)
  \/ \E t \in DOMAIN tasks, ok \in BOOLEAN : RcAexitDone(t, ok)
  \/ \E t \in DOMAIN tasks : RcSleepDone(t)
  \/ \E t \in DOMAIN tasks, s \in FetchIds : RcFetchDone(t, s)
  \/ \E t \in DOMAIN tasks : RcFetchFails(t)
  \/ \E t \in DOMAIN tasks, o \in {"open", "lost", "raise"} : RcConnectDone(t, o)
  \/ \E t \in DOMAIN tasks, ok \in BOOLEAN : RcPublishDone(t, ok)
  \/ \E t \in DOMAIN tasks : PresenceLoop(t)
  \/ \E t \in DOMAIN tasks, ok \in BOOLEAN : PresencePublishDone(t, ok)
  \/ \E t \in DOMAIN tasks : TaskCancelled(t)
  \/ StopEnter
  \/ StopListenAwaited
  \/ StopTimerAwaited
  \/ StopPresenceAwaited
  \/ StopAexitDone
  \/ \E k \in DOMAIN clients : ConnLost(k)

\* the state when Mqtt.connect is called: a constructed Client, cursor unset
InitMqtt == InitReq /\ InitClient /\ InitDisp /\ InitCursor /\ InitSession

SpecMqtt == InitMqtt /\ [][NextMqtt]_vars

\* the timer's asyncio.sleep ends and a task that is ready to run is run: the
\* timer task is not starved
TimerFairness ==
  /\ WF_vars(\E t \in DOMAIN tasks : TimerStart(t))
  /\ WF_vars(\E t \in DOMAIN tasks : TimerFires(t))

SpecMqttFair == InitMqtt /\ [][NextMqtt]_vars /\ TimerFairness

(* ----------------------- the correlator's runs ------------------------ *)
Init == InitReq /\ InitClient /\ InitDisp /\ InitNoSession

NextReq ==
  \/ \E c \in Calls : SendRequestEnter(c)
  \/ \E c \in Calls : SendRequestPublished(c)
  \/ \E c \in Calls : SendRequestPublishFails(c)
  \/ \E c \in Calls : SendRequestReturns(c)
  \/ \E c \in Calls : SendRequestTimesOut(c)
  \/ \E rid \in 0..(MaxCalls - 1) \cup {NeverSentId} : LsRespFrame(rid)
  \/ StartListening
  \/ StopListening
  \/ \E l \in DOMAIN loops : DispatchLoopEnter(l)

SpecReq == Init /\ [][NextReq]_vars

(* ----------------------- the dispatcher's runs ------------------------ *)

NextDisp ==
  \/ StartListening
  \/ StopListening
  \/ \E l \in DOMAIN loops : DispatchLoopEnter(l)
  \/ \E kinds \in FrameKinds : FrameArrives(kinds)
  \/ HandlerResumes
  \/ ReconnectCancelsHandler
  \/ \E k \in ListenedKinds, x \in Listeners : AddListener(k, x)
  \/ \E k \in ListenedKinds, x \in Listeners : RemoveListener(k, x)
  \/ \E l \in DOMAIN loops : LoopGet(l)
  \/ \E l \in DOMAIN loops, raises \in BOOLEAN : ListenerEnds(l, raises)
  \/ \E l \in DOMAIN loops : MethodEnds(l)

SpecDisp == Init /\ [][NextDisp]_vars

(* C1: for concurrent _send_request calls with distinct ids and reply frames
   in any order, a future is only ever resolved with, and a call only ever
   returns, the reply whose request_id is the call's own id. *)
C1_ReplyReachesItsCaller ==
  \A c \in Calls :
    /\ calls[c].fut = "result" => calls[c].result.request_id = calls[c].request_id
    /\ calls[c].pc = "returned" => calls[c].ret.request_id = calls[c].request_id

\* a later request has returned with its reply while an earlier, published
\* request is still waiting: the replies came out of request order
C1_Witness ==
  \E c, d \in Calls :
    /\ c < d
    /\ calls[d].pc = "returned"
    /\ calls[d].ret.request_id = calls[d].request_id
    /\ calls[c].pc = "waiting"
    /\ calls[c].fut = "pending"
    /\ calls[c].request_id \in published

(* C8: a _send_request that times out raises to its caller (pc "timedout",
   no result), the timeout step removes exactly the call's own id from the
   pending map, and nothing that happens afterwards (a late reply included)
   changes the timed-out call. *)
C8_TimeoutRemovesOwnWaiter ==
  /\ [](\A c \in Calls : calls[c].pc = "timedout" =>
          /\ calls[c].request_id \notin DOMAIN _pending_requests
          /\ calls[c].ret = NoResult)
  /\ [][\A c \in Calls :
          (calls[c].pc = "waiting" /\ calls'[c].pc = "timedout") =>
             _pending_requests' = DictPop(_pending_requests, calls[c].request_id)]_vars
  /\ [][\A c \in Calls : calls[c].pc = "timedout" => calls'[c] = calls[c]]_vars

\* a call timed out with no reply, the reply for its id arrived afterwards and
\* was dropped, and the waiter of another call is still registered
C8_Witness ==
  \E c, d \in Calls :
    /\ c # d
    /\ calls[c].pc = "timedout"
    /\ calls[c].fut = "cancelled"
    /\ calls[c].request_id \in discarded
    /\ calls[d].request_id \in DOMAIN _pending_requests

(* -------------------------- the cursor's runs ------------------------- *)

\* a connected session whose listen task is receiving: connect succeeded with
\* update_presence and auto_reconnect off, and the bootstrap went out
InitConnected ==
  /\ _sequence_id \in FetchIds
  /\ _sync_token = None
  /\ lastFrame = NoFrame
  /\ _running = TRUE
  /\ _reconnecting = FALSE
  /\ _update_presence = FALSE
  /\ _auto_reconnect = FALSE
  /\ _mqttClient = 1
  /\ _listen_task = 1
  /\ _presence_task = 0
  /\ _reconnect_task = 0
  /\ clients = <<[st |-> "open",
                  boot |-> <<[msg |-> BootstrapMessage(None, _sequence_id),
                              fetched |-> _sequence_id]>>]>>
  /\ tasks = <<[NewTask("listen") EXCEPT !.pc = "recv", !.conn = 1, !.born = 1]>>
  /\ connector = "returned"
  /\ stopper = [pc |-> "idle", wait |-> 0, rc |-> {}]
  /\ rcOutcome = "none"

NextCursor == \E f \in AllFrames : ListenFrame(1, f)

InitListening == InitReq /\ InitClient /\ InitDisp /\ InitConnected

SpecCursor == InitListening /\ [][NextCursor]_vars

(* -------------------------- the bootstrap's runs ---------------------- *)

\* Mqtt._messenger_queue_publish on the session's cursor as it stands: the
\* control message is built from _sync_token and _sequence_id and published
\* on the current client
MessengerQueuePublish ==
  /\ clients[_mqttClient].st = "open"
  /\ Len(clients[_mqttClient].boot) < MaxPublishes
  /\ clients' = Publish(clients, _mqttClient,
                         BootstrapMessage(_sync_token, _sequence_id), _sequence_id)
  /\ UNCHANGED <<_running, _reconnecting, config, _mqttClient, taskRefs, tasks,
                 connector, stopper, rcOutcome, cursorVars, outside>>

\* frames move the cursor of a connected session, and the bootstrap is
\* published from the cursor the frames have left
NextBootstrap ==
  \/ \E f \in AllFrames : ListenFrame(1, f)
  \/ MessengerQueuePublish

SpecBootstrap == InitListening /\ [][NextBootstrap]_vars

(* --------------------------- the decoder's runs ----------------------- *)

\* one delta of every class of the union, of every field of a ClientPayload
\* and of every administrative text, then the deltas the decoders refuse
AllDeltas ==
  {Delta(c, "", "ok") : c \in DeltaTypes \ {"ClientPayload", "AdminTextMessage"}}
  \cup {Delta("ClientPayload", f, "ok") : f \in PayloadFields \cup {"empty"}}
  \cup {Delta("AdminTextMessage", ty, "ok") :
          ty \in DOMAIN admin_text_to_event \cup {UnknownAdminText}}
  \cup {Delta("AdminTextMessage", "change_thread_admins", "remove_admin"),
        Delta("AdminTextMessage", "change_thread_nickname", "bad_inner"),
        Delta("NewMessage", "", "malformed"),
        Delta(UnknownClass, "", "ok")}

\* the deltas that frames of several deltas are made of
SampleDeltas ==
  {Delta("NewMessage", "", "ok"), Delta("ReadReceipt", "", "ok"),
   Delta("NoOp", "", "ok"), Delta("ClientPayload", "empty", "ok"),
   Delta("AdminTextMessage", UnknownAdminText, "ok"),
   Delta("NewMessage", "", "malformed"), Delta(UnknownClass, "", "ok")}

\* the messages of the decoder's runs
Messages ==
  {Msg("/t_ms", TRUE, <<d>>, "", "ok", NoFrame) : d \in AllDeltas}
  \cup {Msg("/t_ms", TRUE, ds, "", "ok", NoFrame) :
          ds \in SeqsUpTo(SampleDeltas, MaxDeltas) \ {<<>>}}
  \cup {Msg("/legacy_web", TRUE, <<>>, ty, "ok", NoFrame) :
          ty \in DOMAIN NotificationEvent \cup {"some_new_notification"}}
  \cup {Msg("/t_ms", TRUE, <<>>, "syncToken1", "ok",
            [first |-> 1, last |-> Absent, token |-> "1"]),
        Msg("/t_ms", TRUE, <<>>, "syncToken1", "malformed",
            [first |-> Absent, last |-> Absent, token |-> "1"]),
        Msg("/t_ms", FALSE, <<Delta("NewMessage", "", "ok")>>, "", "ok", NoFrame),
        Msg("/thread_typing", TRUE, <<>>, "typ", "ok", NoFrame),
        Msg("/thread_typing", TRUE, <<>>, "typ", "malformed", NoFrame),
        Msg("/thread_typing", TRUE, <<>>, "", "ok", NoFrame),
        Msg("/orca_typing_notifications", TRUE, <<>>, "", "ok", NoFrame),
        Msg("/orca_presence", TRUE, <<>>, "list_type", "ok", NoFrame),
        Msg("/orca_presence", TRUE, <<>>, "list_type", "malformed", NoFrame),
        Msg("/orca_presence", FALSE, <<>>, "list_type", "ok", NoFrame),
        Msg("/some_topic", TRUE, <<>>, "", "ok", NoFrame),
        Msg("/ls_resp", TRUE, <<>>, "", "malformed", NoFrame)}

\* one pass of the async for loop of Mqtt.listen with Client's handler: the
\* loop breaks when the session is neither running nor reconnecting; else the
\* cursor is scanned, the message is handed to _handle_mqtt_messages, whose
\* Events go to the queue (the handler suspends in put() when it is full), and
\* an Exception that leaves the handler is caught by the loop's except
ListenMessage(t, m) ==
  /\ tasks[t].kind = "listen" /\ tasks[t].pc = "recv" /\ ~tasks[t].cancel
  /\ clients[tasks[t].conn].st = "open"
  /\ handler = <<>>
  /\ IF ~_running /\ ~_reconnecting THEN
       /\ tasks' = [tasks EXCEPT ![t] = Finished(@)]
       /\ UNCHANGED <<cursorVars, dispVars>>
     ELSE
       LET r == _handle_mqtt_messages(m)
           evs == [j \in 1..Len(r.evs) |-> [id |-> nextEv + j, kind |-> r.evs[j]]]
           q == PutAll(_events_queue, evs)
       IN /\ nextEv + Len(evs) <= MaxEvents
          /\ _sequence_id' = IF HasCursorField(m.meta)
                               THEN ExtractSeq(m.meta, _sequence_id) ELSE _sequence_id
          /\ _sync_token' = IF HasCursorField(m.meta)
                              THEN ExtractToken(m.meta, _sync_token) ELSE _sync_token
          /\ lastFrame' = m.meta
          /\ _events_queue' = q.q
          /\ handler' = q.h
          /\ nextEv' = nextEv + Len(evs)
          /\ lastMsg' = [msg |-> m, evs |-> r.evs, exc |-> r.exc]
          /\ tasks' = IF ExceptException(r).exc = NoExc THEN tasks
                      ELSE [tasks EXCEPT ![t] = Finished(@)]
          /\ UNCHANGED <<_event_listeners, everAdded, log>>
  /\ UNCHANGED <<_running, _reconnecting, config, _mqttClient, taskRefs, clients,
                 connector, stopper, rcOutcome, reqVars, clientVars, rtVars>>

\* the listen task receives message after message; the dispatch loop is not
\* running yet (start_listening awaits FacebookRealtime.connect), so the queue
\* fills and the handler then suspends in put()
NextDecode == \E m \in Messages : ListenMessage(1, m)

SpecDecode == InitListening /\ [][NextDecode]_vars

(* ------------------------- claims on the session ---------------------- *)

IsLoopTask(task) == task.kind \in {"listen", "presence"}

(* C3: every connect that succeeds publishes exactly one bootstrap control
   message on its client: no client ever carries two, the step in which a
   client's connect reports connected hands the bootstrap to it, and the
   listen and presence tasks of a connection are created only on a client
   whose bootstrap is already out. *)
C3_OneBootstrapBeforeTasks ==
  /\ [](\A k \in DOMAIN clients : Len(clients[k].boot) <= 1)
  /\ [](\A t \in DOMAIN tasks :
          IsLoopTask(tasks[t]) => Len(clients[tasks[t].born].boot) = 1)
  /\ [][\A k \in DOMAIN clients :
          (clients[k].st = "connecting" /\ clients'[k].st = "open")
             => Len(clients'[k].boot) = 1]_vars
  /\ [][\A t \in DOMAIN tasks' :
          (t \notin DOMAIN tasks /\ IsLoopTask(tasks'[t]))
             => Len(clients[tasks'[t].born].boot) = 1]_vars

\* the initial connect and a reconnect both succeeded: a listen task of the
\* second client is receiving and each client carries its bootstrap
C3_Witness ==
  \E t \in DOMAIN tasks :
    /\ tasks[t].kind = "listen"
    /\ tasks[t].pc = "recv"
    /\ tasks[t].born = 2
    /\ Len(clients[1].boot) = 1
    /\ Len(clients[2].boot) = 1

(* C4 as stated: while a reconnect is connecting the transport it has just
   built, the syncToken is already cleared and the sequence id fetched. *)
C4_TokenClearedBeforeBuild ==
  \A t \in DOMAIN tasks :
    tasks[t].pc = "rc_connect" =>
      /\ _sync_token = None
      /\ tasks[t].fetched \in FetchIds

(* C4: in every reconnect the sequence id is fetched and stored in the step
   that then builds the new client, so before the new transport connects; the
   syncToken is cleared only once a new transport reports connected, and
   always before the bootstrap of that reconnect is built. *)
C4_FetchBeforeBuildClearBeforeBootstrap ==
  /\ [](\A t \in DOMAIN tasks :
          tasks[t].pc = "rc_connect" =>
             /\ tasks[t].fetched \in FetchIds
             /\ clients[tasks[t].conn].boot = <<>>)
  /\ [][\A t \in DOMAIN tasks :
          (tasks[t].pc = "rc_fetch" /\ tasks'[t].pc = "rc_connect") =>
             /\ _sequence_id' = tasks'[t].fetched
             /\ Len(clients') = Len(clients) + 1
             /\ clients'[Len(clients')].st = "connecting"]_vars
  /\ [][(_sync_token # None /\ _sync_token' = None) =>
          \E t \in DOMAIN tasks :
             /\ tasks[t].pc = "rc_connect"
             /\ tasks'[t].pc = "rc_publish"
             /\ clients'[_mqttClient].st = "open"]_vars
  /\ [][\A t \in DOMAIN tasks :
          (tasks[t].pc = "rc_connect" /\ tasks'[t].pc = "rc_publish")
             => _sync_token' = None]_vars

\* a reconnect is publishing its bootstrap with the token cleared, after the
\* previous connection had delivered a syncToken
C4_Witness ==
  \E t \in DOMAIN tasks :
    /\ tasks[t].pc = "rc_publish"
    /\ tasks[t].fetched \in FetchIds
    /\ _sync_token = None
    /\ lastFrame.token # None
    /\ Len(clients) = 2

(* C5: the bootstrap published by any reconnect is create-queue, carries no
   syncToken, and carries the sequence id that reconnect fetched. *)
C5_ReconnectBootstrapIsCreateQueue ==
  \A k \in DOMAIN clients :
    k > 1 =>
      \A i \in DOMAIN clients[k].boot :
        /\ clients[k].boot[i].msg.topic = "/messenger_sync_create_queue"
        /\ clients[k].boot[i].msg.sync_token = None
        /\ clients[k].boot[i].msg.seq = clients[k].boot[i].fetched

\* a reconnect published its bootstrap after the first connection had
\* delivered a syncToken and moved the sequence id away from the fetched one
C5_Witness ==
  /\ Len(clients) = 2
  /\ Len(clients[2].boot) = 1
  /\ lastFrame.token # None
  /\ clients[2].boot[1].fetched # clients[1].boot[1].fetched

AllTasksEnded == \A t \in DOMAIN tasks : tasks[t].pc = "done"

\* stop() has ended, by returning or by raising
StopEnded == stopper.pc \in {"done", "raised"}

(* C6: once stop() has ended every background task has ended and the
   transport is closed, and from then on no task is created, no task moves
   and no client is built. *)
C6_StopIsTerminal ==
  /\ [](StopEnded =>
          /\ AllTasksEnded
          /\ clients[_mqttClient].st = "closed")
  /\ [][StopEnded => (tasks' = tasks /\ Len(clients') = Len(clients))]_vars

\* a listen task that is attached to an open transport
LiveListen ==
  \E t \in DOMAIN tasks :
    /\ tasks[t].kind = "listen"
    /\ ~tasks[t].cancel
    /\ \/ tasks[t].pc = "start" /\ clients[_mqttClient].st = "open"
       \/ tasks[t].pc = "recv" /\ clients[tasks[t].conn].st = "open"

(* C9: after a reconnect attempt has failed the session does not count as
   Connected (running and not reconnecting) unless a listen task is attached
   to an open transport. *)
C9_FailedReconnectNotConnected ==
  rcOutcome = "failed" => ~(_running /\ ~_reconnecting /\ ~LiveListen)

(* C10: the sequence id never decreases when a frame is applied (a
   lastIssuedSeqId only raises it, a firstDeltaSeqId sets it only when it is
   unset), and applying a frame twice leaves it as applying it once. *)
C10_SequenceIdMonotonic ==
  /\ [][_sequence_id' >= _sequence_id]_vars
  /\ [][(_sequence_id # 0 /\ lastFrame'.last = Absent) =>
          _sequence_id' = _sequence_id]_vars
  /\ [](\A f \in AllFrames :
          ExtractSeq(f, ExtractSeq(f, _sequence_id)) = ExtractSeq(f, _sequence_id))

(* ------------------------ claims on the dispatcher -------------------- *)

(* C2: listeners are run for the Events in the order the Events were
   enqueued: in the record of listener calls no call for a later Event comes
   before a call for an earlier one, also when a listener raises. *)
C2_ListenersRunInQueueOrder ==
  \A a, b \in DOMAIN log :
    (a < b /\ log[a].by # OnMethod /\ log[b].by # OnMethod) => log[a].ev <= log[b].ev

(* C7: when the dispatch of an Event is over, every listener that was
   registered for the Event's kind when the dispatch began, and still is, has
   been called for it. *)
C7_EveryListenerInvoked ==
  [][\A l \in DOMAIN loops :
       (loops[l].ev # NoEvent /\ loops'[l].ev = NoEvent) =>
          \A x \in Listeners :
             (InList(loops[l].reg, x)
                /\ InList(ListenersOf(_event_listeners, loops[l].ev.kind), x))
                => x \in loops[l].called]_vars

(* --------------------------- claims on the decoder -------------------- *)

\* a delta that is malformed or whose class tag is unknown
BadDelta(d) ==
  \/ d.class \notin DeltaTypes
  \/ d.data \in {"malformed", "bad_inner"}
  \/ (d.class = "ClientPayload" /\ d.inner = "empty")

\* a message that is not valid JSON, or not of the shape its topic calls for,
\* or that holds a malformed delta or a delta of an unknown class
MalformedFrame(m) ==
  \/ ~m.json
  \/ m.data = "malformed"
  \/ (m.topic = "/legacy_web" /\ m.inner \notin DOMAIN NotificationEvent)
  \/ \E j \in DOMAIN m.deltas : BadDelta(m.deltas[j])

(* C11: a frame that is malformed or carries an unknown discriminant produces
   no Event, no exception leaves the frame handler, the listen loop goes on
   receiving, and a well-formed frame that follows is decoded as usual. *)
C11_MalformedFrameDropped ==
  /\ [][(lastMsg' # lastMsg /\ MalformedFrame(lastMsg'.msg)) =>
          /\ lastMsg'.evs = <<>>
          /\ nextEv' = nextEv
          /\ _events_queue' = _events_queue
          /\ lastMsg'.exc = NoExc
          /\ tasks'[1].pc = "recv"]_vars
  /\ [][(lastMsg' # lastMsg /\ MalformedFrame(lastMsg.msg)
           /\ lastMsg'.msg.json /\ lastMsg'.msg.deltas = <<Delta("NewMessage", "", "ok")>>)
          => lastMsg'.evs = <<"message">>]_vars

(* ---------------------- claims on the event queue --------------------- *)

\* the Event e is at some position of the sequence q
Holds(q, e) == \E j \in DOMAIN q : q[j] = e

(* C12: the producer suspends in put() only on a full queue, the queue
   never holds more than its capacity, the Event the producer is suspended on
   stays with the producer until it is in the queue for as long as the client
   is not stopped, and an Event leaves the queue only when a dispatch loop
   takes it. *)
C12_ProducerBlocksNothingDropped ==
  /\ [](Len(_events_queue) <= MaxQueue)
  /\ [][(handler = <<>> /\ handler' # <<>>) => Len(_events_queue') = MaxQueue]_vars
  /\ [][(handler # <<>> /\ _mqtt' # None) =>
          (Holds(handler', Head(handler)) \/ Holds(_events_queue', Head(handler)))]_vars
  /\ [][(\E j \in DOMAIN _events_queue : ~Holds(_events_queue', _events_queue[j])) =>
          /\ _events_queue' = Tail(_events_queue)
          /\ \E l \in DOMAIN loops : loops[l].pc = "get"]_vars

(* ----------------------- claims on shutdown --------------------------- *)

(* C13: when stop_listening completes (the client's session reference is
   dropped), the pending map is empty and no _send_request call is still
   publishing or waiting for its reply. *)
C13_ShutdownFailsPending ==
  [][(_mqtt # None /\ _mqtt' = None) =>
       /\ DOMAIN _pending_requests' = {}
       /\ \A c \in Calls : calls'[c].pc \notin {"publishing", "waiting"}]_vars

\* the listen task t leaves its receive loop in this step because the frame
\* stream of its transport ended, the session being Connected
StreamEnds(t) ==
  /\ _running /\ ~_reconnecting
  /\ tasks[t].kind = "listen" /\ tasks[t].pc = "recv" /\ ~tasks[t].cancel
  /\ clients[tasks[t].conn].st \in {"closed", "lost"}
  /\ tasks'[t].pc # "recv"

(* C14: when the frame stream of a Connected session ends unexpectedly, a
   reconnect sequence starts if auto-reconnect is enabled, and the session
   stops running if it is disabled. *)
C14_StreamEndReconnectsOrDisconnects ==
  [][\A t \in DOMAIN tasks :
       StreamEnds(t) => IF _auto_reconnect THEN _reconnecting' ELSE ~_running']_vars

\* the reconnect sequences that were in progress when stop() was called
\* have ended, and so has stop()
StoppedInReconnect ==
  /\ stopper.rc # {}
  /\ StopEnded
  /\ \A t \in stopper.rc : IsDone(tasks, t)

(* C15: a reconnect sequence that is in progress when stop() is called
   aborts: from then on it builds no transport and starts no task, and once
   it and stop() have ended no transport is open or being connected and no
   listen or presence task is alive. *)
C15_StopAbortsReconnect ==
  /\ [][stopper.rc # {} => (Len(clients') = Len(clients) /\ Len(tasks') = Len(tasks))]_vars
  /\ [](StoppedInReconnect =>
          /\ \A k \in DOMAIN clients : clients[k].st \notin {"open", "connecting"}
          /\ \A t \in DOMAIN tasks : IsLoopTask(tasks[t]) => IsDone(tasks, t))

\* loop l enters the on_<kind> method of its Event in this step
FallbackInvoked(l) == loops[l].pc # "in_method" /\ loops'[l].pc = "in_method"

(* C16: the on_<kind> method is invoked for an Event only when no explicit
   listener is registered for the Event's kind: none was when its dispatch
   began, or none is left when the method is entered; so a listener that is
   registered keeps the method from running, whether it returns or raises. *)
C16_ListenersShortCircuitFallback ==
  [][\A l \in DOMAIN loops :
       FallbackInvoked(l) =>
         \/ loops'[l].reg = <<>>
         \/ ListenersOf(_event_listeners, loops'[l].ev.kind) = <<>>]_vars

(* C17: a reply on /ls_resp whose request_id has no pending waiter (the id
   was never sent, its reply came before, or its call timed out) is dropped:
   the step resolves no future and changes no call, leaves the pending map as
   it is, puts nothing in the event queue, suspends no handler and ends no
   task. *)
C17_UnmatchedReplyDiscarded ==
  [][discarded' # discarded =>
       /\ calls' = calls
       /\ _pending_requests' = _pending_requests
       /\ _events_queue' = _events_queue
       /\ nextEv' = nextEv
       /\ handler' = handler
       /\ tasks' = tasks]_vars

\* a reply with an id that was never sent and a second reply for a call that
\* had returned were both dropped while another call's waiter is registered
\* and still pending
C17_Witness ==
  \E c, d \in Calls :
    /\ c # d
    /\ NeverSentId \in discarded
    /\ calls[d].pc = "returned"
    /\ calls[d].request_id \in discarded
    /\ calls[c].pc = "waiting"
    /\ calls[c].fut = "pending"
    /\ calls[c].request_id \in DOMAIN _pending_requests

\* client k is handed a bootstrap message in this step
BootstrapPublished(k) ==
  /\ k \in DOMAIN clients
  /\ Len(clients'[k].boot) = Len(clients[k].boot) + 1

(* C18: the bootstrap message is chosen by the cursor it is published from:
   with no syncToken it is create-queue with the cursor's sequence id and no
   token; with a syncToken it is get-diffs with the cursor's sequence id and
   that syncToken. *)
C18_BootstrapFollowsCursor ==
  [][\A k \in DOMAIN clients' :
       BootstrapPublished(k) =>
         LET m == clients'[k].boot[Len(clients'[k].boot)].msg IN
           /\ m.seq = _sequence_id'
           /\ m.sync_token = _sync_token'
           /\ m.topic = IF _sync_token' = None THEN "/messenger_sync_create_queue"
                                               ELSE "/messenger_sync_get_diffs"]_vars

\* one client was sent a create-queue and later, after frames had delivered
\* a syncToken and another sequence id, a get-diffs
C18_Witness ==
  \E k \in DOMAIN clients :
    \E i, j \in DOMAIN clients[k].boot :
      /\ i < j
      /\ clients[k].boot[i].msg.topic = "/messenger_sync_create_queue"
      /\ clients[k].boot[j].msg.topic = "/messenger_sync_get_diffs"
      /\ clients[k].boot[j].msg.sync_token \in Tokens
      /\ clients[k].boot[j].msg.seq # clients[k].boot[i].msg.seq

\* the frame applied in this step carries both sequence fields
BothSeqIds(f) == f.last # Absent /\ f.first # Absent

(* C19: when the frame applied carries both lastIssuedSeqId and
   firstDeltaSeqId, the sequence id after the step is the frame's
   lastIssuedSeqId, whatever the two values are, 0 included. *)
C19_LastIssuedWins ==
  [][BothSeqIds(lastFrame') => _sequence_id' = lastFrame'.last]_vars

\* one well-formed delta of every member of the five families, as the
\* message that carries it alone
FamilyShapes ==
  {Msg("/t_ms", TRUE, <<Delta(c, "", "ok")>>, "", "ok", NoFrame) :
     c \in {"NewMessage",
            "AdminRemovedFromGroupThread", "ApprovalMode", "ApprovalQueue",
            "JoinableMode", "ParticipantsAddedToGroupThread",
            "ParticipantLeftGroupThread", "ThreadName", "ThreadDelete",
            "ThreadFolder", "ThreadMuteSettings",
            "ReadReceipt", "DeliveryReceipt", "MarkRead", "MarkUnread",
            "MarkFolderSeen"}}
  \cup {Msg("/t_ms", TRUE, <<Delta("ClientPayload", f, "ok")>>, "", "ok", NoFrame) :
          f \in {"deltaMessageReply", "deltaMessageReply_replyType1",
                 "deltaMessageReaction", "deltaRecallMessageData",
                 "deltaRemoveMessage"}}
  \cup {Msg("/t_ms", TRUE, <<Delta("AdminTextMessage", ty, "ok")>>, "", "ok", NoFrame) :
          ty \in {"change_thread_admins", "joinable_group_link_mode_change",
                  "pin_messages_v2", "unpin_messages_v2", "limit_sharing",
                  "magic_words", "change_thread_nickname", "change_thread_theme",
                  "change_thread_quick_reaction"}}
  \cup {Msg("/legacy_web", TRUE, <<>>, ty, "ok", NoFrame) :
          ty \in {"live_poke", "friending_state_change", "mobile_requests_count"}}
  \cup {Msg("/thread_typing", TRUE, <<>>, "typ", "ok", NoFrame),
        Msg("/orca_typing_notifications", TRUE, <<>>, "", "ok", NoFrame),
        Msg("/orca_presence", TRUE, <<>>, "list_type", "ok", NoFrame)}

\* the EventType the code's tables assign to a family shape; None for a
\* class no table and no branch names
AssignedKind(m) ==
  IF m.topic = "/t_ms" THEN
    LET d == m.deltas[1] IN
      IF d.class = "ClientPayload" THEN PayloadEvent[d.inner]
      ELSE IF d.class = "AdminTextMessage" THEN admin_text_to_event[d.inner]
      ELSE IF d.class \in DOMAIN ClassEvent THEN ClassEvent[d.class]
      ELSE None
  ELSE IF m.topic = "/legacy_web" THEN NotificationEvent[m.inner]
  ELSE IF m.topic = "/orca_presence" THEN "presence"
  ELSE "typing"

(* C20: a message that carries one well-formed delta of a member of the
   message, thread-admin, timestamp, presence/typing or notification family
   (joinable-link mode and folder-seen included) makes the handler put
   exactly one Event in the queue, of the kind assigned to the shape, and no
   exception leaves the handler. *)
C20_OneEventPerFamilyShape ==
  [][(lastMsg' # lastMsg /\ lastMsg'.msg \in FamilyShapes) =>
       /\ Len(lastMsg'.evs) = 1
       /\ AssignedKind(lastMsg'.msg) # None =>
            lastMsg'.evs[1] = AssignedKind(lastMsg'.msg)
       /\ nextEv' = nextEv + 1
       /\ lastMsg'.exc = NoExc]_vars

\* a /t_ms frame of one well-formed administrative-text delta
AdminTextFrame(m) ==
  /\ m.topic = "/t_ms" /\ m.json
  /\ Len(m.deltas) = 1
  /\ m.deltas[1].class = "AdminTextMessage"
  /\ m.deltas[1].data = "ok"

(* C21: for a well-formed administrative-text delta, whatever its inner type
   name, parse_deltas raises nothing and the frame yields either exactly one
   Event of the kind the type-to-kind table gives for the name, or no Event;
   a name the admin-text filter accepts has a kind and that kind a decoder. *)
C21_AdminTextMappedOrDropped ==
  [][(lastMsg' # lastMsg /\ AdminTextFrame(lastMsg'.msg)) =>
       LET d == lastMsg'.msg.deltas[1] IN
         /\ parse_deltas(d) \notin DecoderExceptions
         /\ \/ lastMsg'.evs = <<>>
            \/ /\ d.inner \in DOMAIN admin_text_to_event
               /\ lastMsg'.evs = <<admin_text_to_event[d.inner]>>
         /\ d.inner \in AllAdminText =>
              /\ d.inner \in DOMAIN admin_text_to_event
              /\ admin_text_to_event[d.inner] \in get_decoder]_vars

\* the last reconnect attempt failed and the session still runs with
\* auto-reconnect, stop() not called; another client may still be built
FailedAttempt ==
  /\ rcOutcome = "failed"
  /\ _running /\ _auto_reconnect
  /\ stopper.pc = "idle"
  /\ Len(clients) < MaxClients

(* C22: after a reconnect attempt has failed, while the session runs with
   auto-reconnect and stop() has not been called, the timer task is still
   alive and a reconnect sequence is eventually in progress again (or stop()
   is called), whichever task made the failed attempt. *)
C22_FailedReconnectRetried ==
  /\ [](FailedAttempt =>
          \E t \in DOMAIN tasks : tasks[t].kind = "timer" /\ ~IsDone(tasks, t))
  /\ FailedAttempt ~>
       \/ \E t \in DOMAIN tasks : InReconnect(tasks[t])
       \/ stopper.pc # "idle"

\* the listen task made the failed attempt after a stream error and has
\* ended; the timer task has not run yet
C22_Witness ==
  /\ FailedAttempt
  /\ \E t \in DOMAIN tasks : tasks[t].kind = "timer" /\ tasks[t].pc = "start"
  /\ \A t \in DOMAIN tasks : tasks[t].kind = "listen" => IsDone(tasks, t)

\* the publish of presence task t raises in this step
PublishFailed(t) ==
  /\ tasks[t].kind = "presence" /\ tasks[t].pc = "p_publish" /\ ~tasks[t].cancel
  /\ tasks'[t].pc # "p_publish" /\ tasks'[t].pc # "p_sleep"

(* C23: when a presence publish raises, the presence task goes to its 10 s
   sleep and is not ended, no reconnect sequence is started and no task is
   cancelled or created by that step; from the 10 s sleep the task goes back
   to its loop (publish or 50 s sleep) unless the session was stopped or the
   task cancelled. *)
C23_HeartbeatFailureIsLocal ==
  /\ [][\A t \in DOMAIN tasks :
          PublishFailed(t) =>
            /\ tasks'[t].pc = "p_backoff"
            /\ _reconnecting' = _reconnecting
            /\ Len(tasks') = Len(tasks)
            /\ \A u \in DOMAIN tasks : u # t => tasks'[u] = tasks[u]
            /\ clients' = clients]_vars
  /\ [][\A t \in DOMAIN tasks :
          (tasks[t].pc = "p_backoff" /\ tasks'[t].pc # "p_backoff") =>
            \/ tasks'[t].pc \in {"p_publish", "p_sleep"}
            \/ ~_running
            \/ tasks[t].cancel]_vars

\* a presence task is in its 10 s sleep after a failed publish while the
\* session runs, connected, with no reconnect in progress
C23_Witness ==
  \E t \in DOMAIN tasks :
    /\ tasks[t].kind = "presence" /\ tasks[t].pc = "p_backoff"
    /\ _running /\ ~_reconnecting
    /\ IsConnected(clients, _mqttClient)
    /\ \A u \in DOMAIN tasks : ~InReconnect(tasks[u])

\* presence task t starts a publish in this step
HeartbeatPublishes(t) ==
  /\ tasks[t].kind = "presence"
  /\ tasks[t].pc # "p_publish" /\ tasks'[t].pc = "p_publish"

(* C24: a presence task starts a publish only while the session is
   connected: stop() has not been called, no reconnect sequence is in
   progress (no task is inside _reconnect and _reconnecting is not set) and
   the listen task of the session is alive. *)
C24_HeartbeatOnlyWhileConnected ==
  [][\A t \in DOMAIN tasks :
       HeartbeatPublishes(t) =>
         /\ stopper.pc = "idle"
         /\ _running
         /\ ~_reconnecting
         /\ \A u \in DOMAIN tasks : ~InReconnect(tasks[u])
         /\ LiveListen]_vars

\* stop() reaches the step named pc in this step
StopCancels(pc) == stopper.pc # pc /\ stopper'.pc = pc

(* C25: stop() cancels the listen task first, then the presence task, then
   the timer task, and closes the transport last: when it cancels the
   presence task the listen task has ended, when it cancels the timer task
   the listen and presence tasks have ended, and when it closes the
   transport all three have ended. *)
C25_StopCancelsInOrder ==
  /\ [][StopCancels("s_wait_presence") => ~NeedsCancel(tasks', _listen_task')]_vars
  /\ [][StopCancels("s_wait_timer") =>
          /\ ~NeedsCancel(tasks', _listen_task')
          /\ ~NeedsCancel(tasks', _presence_task')]_vars
  /\ [][StopCancels("s_aexit") =>
          /\ ~NeedsCancel(tasks', _listen_task')
          /\ ~NeedsCancel(tasks', _presence_task')
          /\ ~NeedsCancel(tasks', _reconnect_task')]_vars

\* call c is given its request id in this step
IdIssued(c) == calls[c].pc = "idle" /\ calls'[c].pc # "idle"

(* C26: the request id given to a call is larger than every id given
   before, so no two calls ever hold the same id; the counter is advanced by
   the step that gives an id and by no other step, start_listening and
   stop_listening included. *)
C26_RequestIdsIncrease ==
  /\ [](\A c, d \in Calls :
          (c # d /\ calls[c].pc # "idle" /\ calls[d].pc # "idle") =>
            calls[c].request_id # calls[d].request_id)
  /\ [][\A c \in Calls :
          IdIssued(c) =>
            /\ _req_count' > _req_count
            /\ \A d \in Calls :
                 calls[d].pc # "idle" => calls'[c].request_id > calls[d].request_id]_vars
  /\ [][(\A c \in Calls : ~IdIssued(c)) => _req_count' = _req_count]_vars

\* a request was published while listening, the client was stopped, a later
\* request got the next id while stopped, and the client listens again
C26_Witness ==
  \E c, d \in Calls :
    /\ calls[c].request_id \in published
    /\ calls[d].pc # "idle"
    /\ calls[d].request_id \notin published
    /\ calls[d].request_id = calls[c].request_id + 1
    /\ Len(loops) = 2
    /\ _mqtt # None

\* the dispatch of loop l's Event goes on in this step after a listener ended
DispatchGoesOn(l) ==
  /\ loops[l].pc = "in_listener"
  /\ loops'[l].ev = loops[l].ev
  /\ loops'[l] # loops[l]

(* C27: the listeners invoked for an Event are those of the kind's list as
   it was when the dispatch began, in that order, whatever is added to or
   removed from the list meanwhile: when the dispatch goes on after its i-th
   listener, it invokes entry i + 1 of that list, and goes past the
   listeners only when that list has no entry i + 1. *)
C27_DispatchIteratesSnapshot ==
  [][\A l \in DOMAIN loops :
       DispatchGoesOn(l) =>
         IF loops[l].i < Len(loops[l].reg)
           THEN /\ loops'[l].pc = "in_listener"
                /\ log'[Len(log')].by = loops[l].reg[loops[l].i + 1]
           ELSE loops'[l].pc # "in_listener"]_vars

\* Mqtt.connect ends in this step without a connection: __aenter__ raised,
\* or it returned and is_connected() is false
ConnectNotEstablished ==
  /\ connector = "connecting"
  /\ connector' \in {"returned", "failed"}

(* C28: when the initial connect ends without a connection, a retry is in
   hand: with auto-reconnect on, the timer task is alive or a reconnect
   sequence is in progress; and connect does not return its Mqtt object to
   start_listening (which then marks the client as listening) with no open
   transport, no listen task and no timer task. *)
C28_FailedConnectIsRetried ==
  /\ [][(ConnectNotEstablished /\ _auto_reconnect) =>
          \E t \in DOMAIN tasks' :
            \/ tasks'[t].kind = "timer" /\ ~IsDone(tasks', t)
            \/ InReconnect(tasks'[t])]_vars
  /\ [][(ConnectNotEstablished /\ connector' = "returned") =>
          \/ IsConnected(clients', _mqttClient')
          \/ \E t \in DOMAIN tasks' : ~IsDone(tasks', t)]_vars

\* the tasks of a kind that have not ended
Alive(kind) == {t \in DOMAIN tasks : tasks[t].kind = kind /\ ~IsDone(tasks, t)}

(* C29: at any time at most one listen task and at most one presence task
   of the session have not ended, whatever the interleaving of reconnects
   started by the timer, reconnects started by the listen task and stop(). *)
C29_OneListenOnePresence ==
  /\ Cardinality(Alive("listen")) <= 1
  /\ Cardinality(Alive("presence")) <= 1

\* a reconnect has built a second client; the timer task is in a later
\* reconnect, awaiting the listen task that an earlier reconnect created, a
\* presence task is alive too, and stop() has been called
C29_Witness ==
  /\ Len(clients) = 2
  /\ stopper.pc # "idle"
  /\ \E t \in DOMAIN tasks : tasks[t].kind = "timer" /\ InReconnect(tasks[t])
  /\ \E t \in DOMAIN tasks : tasks[t].kind = "listen" /\ IsDone(tasks, t)
  /\ Cardinality(Alive("listen")) = 1
  /\ Cardinality(Alive("presence")) = 1

\* the _send_request call c has ended: it returned the reply, raised
\* TimeoutError, or its publish raised
CallEnded(c) == calls[c].pc \in {"returned", "timedout", "failed"}

(* C30: once a _send_request call has ended, by reply, by timeout or by a
   failed publish, the pending map has no entry for the call's request id. *)
C30_NoEntryAfterCallEnded ==
  \A c \in Calls :
    CallEnded(c) => calls[c].request_id \notin DOMAIN _pending_requests

\* the dispatch tasks that are inside `while self._listening`: waiting in
\* get() or dispatching an Event
Consuming == {l \in DOMAIN loops : loops[l].pc \in {"get", "in_listener", "in_method"}}

(* C31: at any time at most one dispatch task is taking Events from the
   event queue, whatever start_listening and stop_listening calls were made. *)
C31_OneDispatchLoop == Cardinality(Consuming) <= 1

(* C32: when update_presence is off, the session never has a presence task,
   so no presence snapshot is ever published, also after reconnects. *)
C32_NoHeartbeatWhenDisabled ==
  ~_update_presence => \A t \in DOMAIN tasks : tasks[t].kind # "presence"

(* C33: the step that publishes a request leaves a pending waiter
   registered under the request's id, and a reply to a published request
   that finds no pending waiter is a reply to a call whose future was
   resolved or cancelled before: never to a call not yet registered. *)
C33_RegisteredBeforePublished ==
  /\ [][\A rid \in published' \ published :
          /\ rid \in DOMAIN _pending_requests'
          /\ calls'[_pending_requests'[rid]].request_id = rid
          /\ calls'[_pending_requests'[rid]].fut = "pending"]_vars
  /\ [][\A rid \in (discarded' \ discarded) \cap published :
          \E c \in Calls :
            /\ calls[c].request_id = rid
            /\ calls[c].fut \in {"result", "cancelled"}]_vars

\* the reply to a request arrived while the request's publish had not
\* returned yet, and resolved the waiter
C33_Witness ==
  \E c \in Calls :
    /\ calls[c].pc = "publishing"
    /\ calls[c].fut = "result"
    /\ calls[c].result.request_id = calls[c].request_id

\* a delta that decodes and that parse_deltas makes an Event of
ProducesEvent(d) ==
  /\ Decodes(d)
  /\ parse_deltas(d) \notin DecoderExceptions \cup {None}

\* the kinds of the Events of the deltas of ds that produce one, in order
EventsOf(ds) ==
  LET good == SelectSeq(ds, ProducesEvent) IN
    [j \in 1..Len(good) |-> parse_deltas(good[j])]

\* a /t_ms frame of several deltas
DeltaBatch(m) == m.topic = "/t_ms" /\ m.json /\ Len(m.deltas) >= 2

(* C34: in a /t_ms frame of several deltas, every delta that is well formed
   and recognized produces its Event, in delta order, whatever the other
   deltas of the frame are: a delta that fails or is unknown is dropped
   alone. *)
C34_BadDeltaDroppedAlone ==
  [][(lastMsg' # lastMsg /\ DeltaBatch(lastMsg'.msg)) =>
       lastMsg'.evs = EventsOf(lastMsg'.msg.deltas)]_vars

(* ------------- requests made while frames are dispatched -------------- *)

\* a listener awaited by dispatch in loop l calls _send_request
ListenerSendsRequest(l, c) ==
  /\ loops[l].pc = "in_listener"
  /\ ~InSendRequest(l)
  /\ SendRequest(c)
  /\ caller' = [caller EXCEPT ![c] = l]
  /\ UNCHANGED <<arrived, clientVars, dispVars, mqttVars, rtVars>>

\* the reply to a published request whose waiter is pending reaches the
\* client on /ls_resp: it waits in self._mqttClient.messages until the listen
\* loop takes it
LsRespArrives(rid) ==
  /\ _mqtt # None
  /\ rid \in published \ arrived
  /\ \E c \in Calls : calls[c].request_id = rid /\ calls[c].fut = "pending"
  /\ arrived' = arrived \cup {rid}
  /\ UNCHANGED <<_req_count, _pending_requests, calls, published, discarded, caller,
                 clientVars, dispVars, mqttVars, rtVars>>

\* Mqtt.listen: `async for message in self._mqttClient.messages` takes the
\* next frame once `await self._message_handler(topic, payload)` of the frame
\* before it has returned; the frame is a reply
ListenLsResp(rid) ==
  /\ _mqtt # None
  /\ handler = <<>>
  /\ rid \in arrived
  /\ HandleLsResp(rid)
  /\ arrived' = arrived \ {rid}
  /\ UNCHANGED <<clientVars, dispVars, mqttVars, rtVars>>

\* the same loop takes an event frame: the frames are handled in the order
\* they arrived in
ListenEventFrame(kinds) ==
  /\ arrived = {}
  /\ FrameArrives(kinds)

\* no task of the client can run: the listen loop has no frame it can handle,
\* the handler suspended in put() has no free slot, no dispatch loop can take
\* an Event, every running listener is suspended in _send_request and every
\* call is suspended in wait_for on a pending future
NothingReady ==
  /\ arrived = {} \/ handler # <<>>
  /\ handler = <<>> \/ Len(_events_queue) >= MaxQueue
  /\ \A l \in DOMAIN loops :
       \/ loops[l].pc = "done"
       \/ loops[l].pc = "get" /\ _events_queue = <<>>
       \/ loops[l].pc = "in_listener" /\ InSendRequest(l)
  /\ \A c \in Calls : /\ calls[c].pc # "publishing"
                       /\ calls[c].pc = "waiting" => calls[c].fut = "pending"

\* asyncio.wait_for(fut, timeout=timeout): the timer runs out after `timeout`
\* seconds, 10 by default; the tasks that were ready to run have run by then
WaitForExpires(c) ==
  /\ NothingReady
  /\ SendRequestTimesOut(c)

NextReply ==
  \/ StartListening
  \/ \E l \in DOMAIN loops : DispatchLoopEnter(l)
  \/ \E k \in ListenedKinds : AddListener(k, 1)
  \/ \E kinds \in FrameKinds : ListenEventFrame(kinds)
  \/ HandlerResumes
  \/ \E l \in DOMAIN loops : LoopGet(l)
  \/ \E l \in DOMAIN loops : ListenerEnds(l, FALSE)
  \/ \E l \in DOMAIN loops : MethodEnds(l)
  \/ \E c \in Calls : SendRequestEnter(c)
  \/ \E l \in DOMAIN loops, c \in Calls : ListenerSendsRequest(l, c)
  \/ \E c \in Calls : SendRequestPublished(c)
  \/ \E c \in Calls : SendRequestReturns(c)
  \/ \E rid \in 0..(MaxCalls - 1) : LsRespArrives(rid)
  \/ \E rid \in 0..(MaxCalls - 1) : ListenLsResp(rid)
  \/ \E c \in Calls : WaitForExpires(c)

SpecReply == Init /\ [][NextReply]_vars

(* C35: a reply that has arrived on /ls_resp for a pending waiter resolves
   the waiter before the call's timeout, however full the event queue is and
   whether or not a listener is suspended in _send_request: no call times out
   while its reply waits for the listen loop. *)
C35_ArrivedReplyResolvesWaiter ==
  [][\A c \in Calls :
       (calls[c].pc = "waiting" /\ calls'[c].pc = "timedout") =>
         calls[c].request_id \notin arrived]_vars

(* -------------------------- FacebookRealtime -------------------------- *)
\* A coroutine of connects: kind is "connect" (FacebookRealtime.connect),
\* "reconnect" (a call of reconnect()) or "scheduled" (a _schedule_reconnect
\* task); pc is the await it is suspended in; depth counts the _connect
\* frames below the running one, each suspended in `await self.reconnect()`
\* of _send_subscriptions.  _emitter.emit is awaited with no listener
\* registered and returns at once.

WsOpen(ws) == realtime._ws # 0 /\ ws[realtime._ws] = "open"

\* self._ws.close(): the websocket is closed from the call on
WsClose(ws) == [ws EXCEPT ![realtime._ws] = "closed"]

\* reconnect(), up to its first await: _cleanup awaits self._ws.close() when
\* the websocket is open, else _session = None and _connect runs up to
\* ws_connect
ReconnectPc == IF WsOpen(websockets) THEN "closing" ELSE "ws_connect"

\* a _connect call of coroutine q returns: the _connect below it goes on
\* with its subscriptions, or the coroutine is over
ConnectReturns(q) ==
  IF q.depth > 0 THEN [q EXCEPT !.depth = @ - 1, !.pc = "subscribe"]
  ELSE [q EXCEPT !.pc = "done"]

\* the instance was returned by FacebookRealtime.connect
Returned == connects # <<>> /\ connects[1].pc = "done"

\* _connect after the subscriptions: self._running = True
ConnectRunning(r) == [r EXCEPT !._running = TRUE]

\* await FacebookRealtime.connect(state, handler): the instance is built and
\* _connect runs up to `await self._session.ws_connect(...)`
RtConnect ==
  /\ connects = <<>>
  /\ connects' = <<[kind |-> "connect", pc |-> "ws_connect", depth |-> 0]>>
  /\ UNCHANGED <<realtime, websockets, listenTasks, rtStop, reqVars, clientVars, dispVars,
                 mqttVars>>

\* the application calls reconnect() on the instance it was given
RtReconnect ==
  /\ Returned
  /\ rtStop.pc = "idle"
  /\ Len(connects) < MaxConnects
  /\ connects' = Append(connects, [kind |-> "reconnect", pc |-> ReconnectPc, depth |-> 0])
  /\ websockets' = IF WsOpen(websockets) THEN WsClose(websockets) ELSE websockets
  /\ UNCHANGED <<realtime, listenTasks, rtStop, reqVars, clientVars, dispVars, mqttVars>>

\* _cleanup: `await self._ws.close()` returns, _session = None; then _connect
\* runs up to ws_connect
RtClosed(p) ==
  /\ connects[p].pc = "closing"
  /\ connects' = [connects EXCEPT ![p].pc = "ws_connect"]
  /\ UNCHANGED <<realtime, websockets, listenTasks, rtStop, reqVars, clientVars, dispVars,
                 mqttVars>>

\* ws_connect returns the websocket: self._ws is set and _send_subscriptions
\* begins.  Or it raises: the except clause emits 'error' and creates a
\* _schedule_reconnect task, and _connect returns.
RtWsConnected(p, ok) ==
  /\ connects[p].pc = "ws_connect"
  /\ IF ok
       THEN /\ Len(websockets) < MaxSockets
            /\ websockets' = Append(websockets, "open")
            /\ realtime' = [realtime EXCEPT !._ws = Len(websockets) + 1]
            /\ connects' = [connects EXCEPT ![p].pc = "subscribe"]
       ELSE /\ Len(connects) < MaxConnects
            /\ connects' = Append([connects EXCEPT ![p] = ConnectReturns(@)],
                                  [kind |-> "scheduled", pc |-> "start", depth |-> 0])
            /\ UNCHANGED <<realtime, websockets>>
  /\ UNCHANGED <<listenTasks, rtStop, reqVars, clientVars, dispVars, mqttVars>>

\* _send_subscriptions is over, with every send_bytes done or its error
\* logged: _running = True, the listen task is created on self._ws,
\* 'connected' is emitted and _connect returns
RtSubscribed(p) ==
  /\ connects[p].pc = "subscribe"
  /\ realtime' = [ConnectRunning(realtime) EXCEPT !._listen_task = Len(listenTasks) + 1]
  /\ listenTasks' = Append(listenTasks, [ws |-> realtime._ws, st |-> "running"])
  /\ connects' = [connects EXCEPT ![p] = ConnectReturns(@)]
  /\ UNCHANGED <<websockets, rtStop, reqVars, clientVars, dispVars, mqttVars>>

\* a send_bytes of _send_subscriptions raises while _running is set: the
\* except clause awaits self.reconnect()
RtSubscribeFails(p) ==
  /\ connects[p].pc = "subscribe"
  /\ realtime._running
  /\ connects[p].depth < MaxDepth
  /\ connects' = [connects EXCEPT ![p].depth = @ + 1, ![p].pc = ReconnectPc]
  /\ websockets' = IF WsOpen(websockets) THEN WsClose(websockets) ELSE websockets
  /\ UNCHANGED <<realtime, listenTasks, rtStop, reqVars, clientVars, dispVars, mqttVars>>

\* a _schedule_reconnect task starts: `if not self._running: return`, else
\* it sleeps for a second
RtScheduleStart(p) ==
  /\ connects[p].pc = "start"
  /\ connects' = [connects EXCEPT ![p].pc = IF realtime._running THEN "sleep" ELSE "done"]
  /\ UNCHANGED <<realtime, websockets, listenTasks, rtStop, reqVars, clientVars, dispVars,
                 mqttVars>>

\* the sleep is over: `if self._running: await self.reconnect()`
RtSleepDone(p) ==
  /\ connects[p].pc = "sleep"
  /\ connects' = [connects EXCEPT ![p].pc = IF realtime._running THEN ReconnectPc
                                             ELSE "done"]
  /\ websockets' = IF realtime._running /\ WsOpen(websockets) THEN WsClose(websockets)
                   ELSE websockets
  /\ UNCHANGED <<realtime, listenTasks, rtStop, reqVars, clientVars, dispVars, mqttVars>>

\* _listen_loop: `async for msg in self._ws` ends when its websocket is closed
RtListenEnds(k) ==
  /\ listenTasks[k].st = "running"
  /\ websockets[listenTasks[k].ws] = "closed"
  /\ listenTasks' = [listenTasks EXCEPT ![k].st = "done"]
  /\ UNCHANGED <<realtime, websockets, connects, rtStop, reqVars, clientVars, dispVars,
                 mqttVars>>

\* _listen_loop catches the CancelledError of stop() and returns
RtListenCancelled(k) ==
  /\ listenTasks[k].st = "cancelling"
  /\ listenTasks' = [listenTasks EXCEPT ![k].st = "done"]
  /\ UNCHANGED <<realtime, websockets, connects, rtStop, reqVars, clientVars, dispVars,
                 mqttVars>>

\* stop() goes into _cleanup: it awaits self._ws.close() when the websocket
\* is open, else it is over
RtStopCleanup ==
  /\ rtStop' = [rtStop EXCEPT !.pc = IF WsOpen(websockets) THEN "closing" ELSE "done"]
  /\ websockets' = IF WsOpen(websockets) THEN WsClose(websockets) ELSE websockets

\* stop(): _running = False, the emitter is stopped, the listen task is
\* cancelled and awaited when it is not done, then _cleanup
RtStopEnter ==
  /\ Returned
  /\ rtStop.pc = "idle"
  /\ realtime' = [realtime EXCEPT !._running = FALSE]
  /\ IF realtime._listen_task # 0 /\ listenTasks[realtime._listen_task].st # "done"
       THEN /\ listenTasks' = [listenTasks EXCEPT ![realtime._listen_task].st = "cancelling"]
            /\ rtStop' = [rtStop EXCEPT !.pc = "await_listen"]
            /\ UNCHANGED websockets
       ELSE /\ RtStopCleanup
            /\ UNCHANGED listenTasks
  /\ UNCHANGED <<connects, reqVars, clientVars, dispVars, mqttVars>>

\* `await self._listen_task` returns in stop()
RtStopListenAwaited ==
  /\ rtStop.pc = "await_listen"
  /\ realtime._listen_task # 0 => listenTasks[realtime._listen_task].st = "done"
  /\ RtStopCleanup
  /\ UNCHANGED <<realtime, listenTasks, connects, reqVars, clientVars, dispVars, mqttVars>>

\* `await self._ws.close()` returns in stop()'s _cleanup
RtStopClosed ==
  /\ rtStop.pc = "closing"
  /\ rtStop' = [rtStop EXCEPT !.pc = "done"]
  /\ UNCHANGED <<realtime, websockets, listenTasks, connects, reqVars, clientVars, dispVars,
                 mqttVars>>

NextRealtime ==
  \/ RtConnect
  \/ RtReconnect
  \/ \E p \in DOMAIN connects : RtClosed(p)
  \/ \E p \in DOMAIN connects, ok \in BOOLEAN : RtWsConnected(p, ok)
  \/ \E p \in DOMAIN connects : RtSubscribed(p)
  \/ \E p \in DOMAIN connects : RtSubscribeFails(p)
  \/ \E p \in DOMAIN connects : RtScheduleStart(p)
  \/ \E p \in DOMAIN connects : RtSleepDone(p)
  \/ \E k \in DOMAIN listenTasks : RtListenEnds(k)
  \/ \E k \in DOMAIN listenTasks : RtListenCancelled(k)
  \/ RtStopEnter
  \/ RtStopListenAwaited
  \/ RtStopClosed

SpecRealtime == Init /\ [][NextRealtime]_vars

(* C36: once stop() has been called the connection never runs again: no step
   after the call sets _running or creates a listen task, whatever connect or
   scheduled reconnect was in flight when stop() was called. *)
C36_StopIsFinal ==
  [][rtStop.pc # "idle" =>
       /\ ~realtime'._running
       /\ Len(listenTasks') = Len(listenTasks)]_vars

====
